---- MODULE Spec2Model ----
(***************************************************************************)
(* Verification model of the two schedulers of rodrigoricky/hd-application *)
(*                                                                         *)
(*   ScheduleBot  (src/code3.js): TimeParser, ScheduleManager, ScheduleBot *)
(*   RemindBot    (src/code1.js): TimeParser, ReminderManager, ReminderBot *)
(*                                                                         *)
(* Each program is one Node.js process: a single thread whose handlers run *)
(* to their next `await` without interruption.  An action of this module   *)
(* is one such run-to-await segment.  The variable `bot` says which of the *)
(* two programs the behaviour is a run of; it never changes.               *)
(*                                                                         *)
(* Time is in milliseconds as in the source.  Local time is taken to be    *)
(* UTC without daylight saving, so `new Date(y, m, d, h, mi, 0, 0)` is the *)
(* start of the day plus h hours and mi minutes (the Date constructor      *)
(* normalises h >= 24 and d + 1 by the same linear arithmetic).            *)
(*                                                                         *)
(* Not modelled: message text and template substitution, createdAt, the    *)
(* stored `day`/`time` of a recurring schedule (written once, never read), *)
(* embeds and replies of the command layer.                                *)
(***************************************************************************)
EXTENDS Integers, Sequences, FiniteSets, TLC

VARIABLES
    bot,               \* "ScheduleBot" | "ReminderBot": the program that runs
    now,               \* Date.now()
    pc,                \* position of the 'ready' handler: init, loading, running
    checkTimer,        \* this.checkTimer is armed (setInterval is active)
    nextId,            \* this.nextId
    schedules,         \* ScheduleManager.schedules: id -> schedule
    channelSchedules,  \* ScheduleManager.channelSchedules: channelId -> set of ids
    reminders,         \* ReminderManager.reminders: id -> reminder
    userReminders,     \* ReminderManager.userReminders: userId -> set of ids
    disk,              \* content of config.dataFile, NoFile when absent
    scans,             \* check() calls suspended at an await
    calls,             \* create()/delete() calls suspended at `await this.save()`
    sends,             \* ReminderBot.sendReminder calls suspended at an await
    creates,           \* tasks created so far, by this run or the run before it
    faults,            \* number of writes and delivery attempts that have failed
    issued,            \* history: the ids create() has assigned, in order
    delivered,         \* history: the invocations of the delivery hook
    parseCall          \* the call of TimeParser.parse under study: input, time, result

vars == <<bot, now, pc, checkTimer, nextId, schedules, channelSchedules,
          reminders, userReminders, disk, scans, calls, sends, creates, faults,
          issued, delivered, parseCall>>

-----------------------------------------------------------------------------
(* Program constants *)

SecondMs == 1000
MinuteMs == 60000
HourMs == 3600000
DayMs == 86400000
WeekMs == 604800000

(* Bounds of the model *)

\* config.maxSchedulesPerChannel (20) and config.maxRemindersPerUser (25),
\* scaled down: the limit check compares a set size with the configured value
\* and is the same code for every value.
maxSchedulesPerChannel == 1
maxRemindersPerUser == 2

\* schedules (ScheduleBot) and reminders (RemindBot) created in all, by the
\* run that wrote the data file and by this one
MaxSchedules == 2
MaxReminders == 3
\* the clock advances at most MaxTicks times, by TickMs each time
MaxTicks == 1
\* check() calls suspended at the same time
MaxScans == 2
\* create()/delete() calls suspended at the same time
MaxCalls == 2
\* writes and delivery attempts that fail in one run
MaxFaults == 1
\* messages sent in a run after a long downtime
MaxDeliveries == 3

TickMs == 12 * HourMs
\* the process starts on day 3 of the epoch (a Sunday) at 12:00
T0 == (3 * DayMs) + (12 * HourMs)
MaxTime == T0 + (MaxTicks * TickMs)

Channels == {"c1", "c2"}
Users == {"u1", "u2"}
\* the authors of create commands, and the channels RemindBot commands are
\* sent in
Creators == {"u1"}
ReplyChannels == {"c1"}
\* the ids delete commands name
Ids == 1..3

\* no call of parse is under study
NoParse == [at |-> -1]
NoFile == [nextId |-> 0]
NoData == [nextId |-> -1]

-----------------------------------------------------------------------------
(* Helpers over finite maps and sequences *)

Max(a, b) == IF a >= b THEN a ELSE b

RECURSIVE SetToSeq(_)
\* The elements of a finite set of integers in ascending order.  A JS Map or
\* Set iterates in insertion order; ids are inserted in ascending order (create
\* inserts nextId++, load inserts in the order save wrote), so iteration order
\* is ascending id order.
SetToSeq(S) ==
    IF S = {} THEN <<>>
    ELSE LET m == CHOOSE x \in S : \A y \in S : x <= y
         IN <<m>> \o SetToSeq(S \ {m})

RemoveAt(s, k) == [j \in 1..(Len(s) - 1) |-> IF j < k THEN s[j] ELSE s[j + 1]]

MapSet(f, k, v) == [x \in (DOMAIN f) \cup {k} |-> IF x = k THEN v ELSE f[x]]
MapDelete(f, k) == [x \in (DOMAIN f) \ {k} |-> f[x]]
EmptyMap == [x \in {} |-> 0]

-----------------------------------------------------------------------------
(* ScheduleBot TimeParser (src/code3.js)                                   *)
(*                                                                         *)
(* A time string is given by the pattern it matches and the groups the     *)
(* pattern captures: pat is "daily", "weekly", "tomorrow", "today",        *)
(* "every" or "nomatch"; hour is the \d{1,2} group, minute the \d{2} group *)
(* (0 when omitted, as `minute || '0'`), meridiem "am", "pm" or "" when    *)
(* omitted, day the weekday name, amount the \d+ group, unit "hour" or     *)
(* "minute".                                                               *)

TimeString(pat, day, hour, minute, meridiem, amount, unit) ==
    [pat |-> pat, day |-> day, hour |-> hour, minute |-> minute,
     meridiem |-> meridiem, amount |-> amount, unit |-> unit]

DayStart(t) == t - (t % DayMs)
\* Date.prototype.getDay(): 0 is Sunday; day 0 of the epoch was a Thursday
GetDay(t) == ((t \div DayMs) + 4) % 7
GetHours(t) == (t % DayMs) \div HourMs
\* new Date(y, m, d + addDays, hour, minute, 0, 0).getTime() for the date of t
DateAt(t, addDays, hour, minute) ==
    DayStart(t) + (addDays * DayMs) + (hour * HourMs) + (minute * MinuteMs)

\* the conversion without its two special cases: 12 is added for every pm
parseTimeNaive(hour, minute, meridiem) ==
    [hour |-> IF meridiem = "pm" THEN hour + 12 ELSE hour, minute |-> minute]

parseTime(hour, minute, meridiem) ==
    LET h == IF meridiem = "pm" /\ hour # 12 THEN hour + 12
             ELSE IF meridiem = "am" /\ hour = 12 THEN 0
             ELSE hour
    IN [hour |-> h, minute |-> minute]

\* the daily run that moves on a day only when the time is before t
getNextDailyRunBefore(time, t) ==
    LET next == DateAt(t, 0, time.hour, time.minute)
    IN IF next < t THEN next + DayMs ELSE next

getNextDailyRun(time, t) ==
    LET next == DateAt(t, 0, time.hour, time.minute)
    IN IF next <= t THEN next + DayMs ELSE next

DayIndex(dayName) ==
    CASE dayName = "sunday" -> 0
      [] dayName = "monday" -> 1
      [] dayName = "tuesday" -> 2
      [] dayName = "wednesday" -> 3
      [] dayName = "thursday" -> 4
      [] dayName = "friday" -> 5
      [] dayName = "saturday" -> 6

getNextWeeklyRun(dayName, time, t) ==
    LET targetDay == DayIndex(dayName)
        d0 == targetDay - GetDay(t)
        daysUntil == IF d0 < 0 \/ (d0 = 0 /\ GetHours(t) >= time.hour)
                     THEN d0 + 7 ELSE d0
    IN DateAt(t, daysUntil, time.hour, time.minute)

getTodayAt(time, t) == DateAt(t, 0, time.hour, time.minute)
\* a "tomorrow" that stays on the date of t
getTomorrowAtSameDay(time, t) == DateAt(t, 0, time.hour, time.minute)
getTomorrowAt(time, t) == DateAt(t, 1, time.hour, time.minute)

\* The plan parse returns; ok = FALSE stands for the thrown ScheduleError
Plan(type, interval, intervalMs, nextRun) ==
    [ok |-> TRUE, code |-> "", type |-> type, interval |-> interval,
     intervalMs |-> intervalMs, nextRun |-> nextRun]
ParseFail(code) ==
    [ok |-> FALSE, code |-> code, type |-> "", interval |-> "",
     intervalMs |-> 0, nextRun |-> 0]

parse(input, t) ==
    LET time == parseTime(input.hour, input.minute, input.meridiem)
    IN CASE input.pat = "daily" ->
              Plan("recurring", "daily", 0, getNextDailyRun(time, t))
         [] input.pat = "weekly" ->
              Plan("recurring", "weekly", 0, getNextWeeklyRun(input.day, time, t))
         [] input.pat = "tomorrow" ->
              Plan("once", "", 0, getTomorrowAt(time, t))
         [] input.pat = "today" ->
              Plan("once", "", 0,
                   IF getTodayAt(time, t) < t THEN getTomorrowAt(time, t)
                   ELSE getTodayAt(time, t))
         [] input.pat = "every" ->
              LET ms == IF input.unit = "hour" THEN input.amount * HourMs
                        ELSE input.amount * MinuteMs
              IN Plan("interval", "", ms, t + ms)
         [] OTHER -> ParseFail("INVALID_FORMAT")

\* the time strings the commands of a run are drawn from
TimeStrings ==
    { TimeString("tomorrow", "", 12, 0, "am", 0, ""),
      TimeString("every", "", 0, 0, "", 12, "hour"),
      TimeString("nomatch", "", 0, 0, "", 0, "") }

-----------------------------------------------------------------------------
(* ScheduleManager (src/code3.js)                                          *)

Schedule(id, channelId, createdBy, timeData) ==
    [id |-> id, channelId |-> channelId, createdBy |-> createdBy,
     enabled |-> TRUE, type |-> timeData.type, interval |-> timeData.interval,
     intervalMs |-> timeData.intervalMs, nextRun |-> timeData.nextRun]

\* this.channelSchedules.get(channelId) || new Set()
ChannelSet(index, channelId) ==
    IF channelId \in DOMAIN index THEN index[channelId] ELSE {}

\* Array.from(m.values()): the values of a Map in iteration order
Values(m) ==
    LET ids == SetToSeq(DOMAIN m)
    IN [j \in 1..Len(ids) |-> m[ids[j]]]

ChannelOrder == <<"c1", "c2">>
UserOrder == <<"u1", "u2">>

RECURSIVE Entries(_, _)
\* Array.from(index.entries()).map(([key, set]) => ({key, ids: Array.from(set)}))
\* The order of the entries is not observable; they are listed in a fixed order.
Entries(index, order) ==
    IF order = <<>> THEN <<>>
    ELSE (IF Head(order) \in DOMAIN index
          THEN <<[key |-> Head(order), ids |-> SetToSeq(index[Head(order)])]>>
          ELSE <<>>) \o Entries(index, Tail(order))

\* the object save() hands to JSON.stringify
SaveData(nid, primary, index, order) ==
    [nextId |-> nid, tasks |-> Values(primary), index |-> Entries(index, order)]

Range(s) == {s[j] : j \in 1..Len(s)}

\* load(): the primary map rebuilt from data.schedules / data.reminders;
\* a later entry with the same id replaces an earlier one (Map.set)
LoadPrimary(data) ==
    [k \in {r.id : r \in Range(data.tasks)} |->
        LET last == CHOOSE j \in 1..Len(data.tasks) :
                        /\ data.tasks[j].id = k
                        /\ \A l \in (j + 1)..Len(data.tasks) : data.tasks[l].id # k
        IN data.tasks[last]]

\* load() that keeps only the index entries that hold an id
LoadIndexNonEmpty(data) ==
    [k \in {e.key : e \in {x \in Range(data.index) : x.ids # <<>>}} |->
        LET last == CHOOSE j \in 1..Len(data.index) :
                        /\ data.index[j].key = k
                        /\ \A l \in (j + 1)..Len(data.index) : data.index[l].key # k
        IN Range(data.index[last].ids)]

\* load(): the index rebuilt from data.channelSchedules / data.userReminders
LoadIndex(data) ==
    [k \in {e.key : e \in Range(data.index)} |->
        LET last == CHOOSE j \in 1..Len(data.index) :
                        /\ data.index[j].key = k
                        /\ \A l \in (j + 1)..Len(data.index) : data.index[l].key # k
        IN Range(data.index[last].ids)]

\* data.nextId || 1
LoadNextId(data) == IF data.nextId = 0 THEN 1 ELSE data.nextId

RECURSIVE InsertSorted(_, _)
\* position of x in an ascending array once the stable sort has placed it:
\* after every element that does not compare greater
InsertSorted(x, s) ==
    IF s = <<>> THEN <<x>>
    ELSE IF Head(s).key <= x.key
         THEN <<Head(s)>> \o InsertSorted(x, Tail(s))
         ELSE <<x>> \o s

\* a list that returns its tasks in index order: the sort left out
SortByKeyUnsorted(s) == s

RECURSIVE SortByKey(_)
\* Array.prototype.sort((a, b) => a.key - b.key), which is stable; the
\* elements are [key, val] pairs
SortByKey(s) ==
    IF s = <<>> THEN <<>>
    ELSE InsertSorted(s[Len(s)], SortByKey(SubSeq(s, 1, Len(s) - 1)))

\* ScheduleManager.list(channelId)
list(channelId) ==
    LET ids == SetToSeq(ChannelSet(channelSchedules, channelId))
        found == SelectSeq(ids, LAMBDA k : k \in DOMAIN schedules /\ schedules[k].enabled)
        sorted == SortByKey([j \in 1..Len(found) |->
                                [key |-> schedules[found[j]].nextRun,
                                 val |-> schedules[found[j]]]])
    IN [j \in 1..Len(sorted) |-> sorted[j].val]

\* a due-set that also takes the schedules that come due within the next tick
DueSchedulesAhead(primary, t) ==
    LET ids == SetToSeq(DOMAIN primary)
        hit == SelectSeq(ids, LAMBDA k : primary[k].enabled /\ primary[k].nextRun <= t + TickMs)
    IN [j \in 1..Len(hit) |-> primary[hit[j]]]

\* a due-set that takes every schedule whose nextRun is reached, enabled or not
DueSchedulesAll(primary, t) ==
    LET ids == SetToSeq(DOMAIN primary)
        hit == SelectSeq(ids, LAMBDA k : primary[k].nextRun <= t)
    IN [j \in 1..Len(hit) |-> primary[hit[j]]]

\* the due-set of ScheduleManager.check at time t, in Map iteration order
DueSchedules(primary, t) ==
    LET ids == SetToSeq(DOMAIN primary)
        hit == SelectSeq(ids, LAMBDA k : primary[k].enabled /\ primary[k].nextRun <= t)
    IN [j \in 1..Len(hit) |-> primary[hit[j]]]

\* channelSet.add(id); this.channelSchedules.set(channelId, channelSet)
IndexAdd(index, key, id) == MapSet(index, key, ChannelSet(index, key) \cup {id})

\* const set = index.get(key); if (set) set.delete(id)
IndexDelete(index, key, id) ==
    IF key \in DOMAIN index THEN MapSet(index, key, index[key] \ {id}) ELSE index

\* the limit check with `>` for `>=`: one task too many gets in
ChannelLimitOffByOne(channelId) ==
    Cardinality(ChannelSet(channelSchedules, channelId)) > maxSchedulesPerChannel

\* channelSet.size >= config.maxSchedulesPerChannel
ChannelLimitReached(channelId) ==
    Cardinality(ChannelSet(channelSchedules, channelId)) >= maxSchedulesPerChannel

\* create() that parses the time string before it checks the limit
CreateErrorParseFirst(channelId, timeString) ==
    IF ~parse(timeString, now).ok THEN parse(timeString, now).code
    ELSE IF ChannelLimitReached(channelId) THEN "LIMIT_REACHED"
    ELSE ""

\* create(): the code of the error it throws before touching the store, ""
\* when none: the limit check comes first, then the parser
CreateError(channelId, timeString) ==
    IF ChannelLimitReached(channelId) THEN "LIMIT_REACHED"
    ELSE IF ~parse(timeString, now).ok THEN parse(timeString, now).code
    ELSE ""

\* delete() without its ownership check
DeleteErrorAnyone(scheduleId, userId) ==
    IF scheduleId \notin DOMAIN schedules THEN "NOT_FOUND" ELSE ""

\* delete(): the code of the error it throws before touching the store, ""
\* when none
DeleteError(scheduleId, userId) ==
    IF scheduleId \notin DOMAIN schedules THEN "NOT_FOUND"
    ELSE IF schedules[scheduleId].createdBy # userId THEN "UNAUTHORIZED"
    ELSE ""

\* check() that takes the next run of a recurring schedule from the clock
RescheduledFromNow(schedule, cur, t) ==
    IF schedule.type = "recurring"
    THEN (IF schedule.interval = "daily" THEN t + DayMs
          ELSE IF schedule.interval = "weekly" THEN t + WeekMs
          ELSE cur)
    ELSE IF schedule.type = "interval" THEN t + schedule.intervalMs
    ELSE cur

\* check(): the nextRun a fired schedule of type recurring or interval gets;
\* `cur` is the object's nextRun when it is rescheduled, t the `now` of the scan
Rescheduled(schedule, cur, t) ==
    IF schedule.type = "recurring"
    THEN (IF schedule.interval = "daily" THEN cur + DayMs
          ELSE IF schedule.interval = "weekly" THEN cur + WeekMs
          ELSE cur)
    ELSE IF schedule.type = "interval" THEN t + schedule.intervalMs
    ELSE cur

\* check() treating a sent `once` schedule like the others: it stays in the map
FiredPrimaryKeep(schedule, t) ==
    IF schedule.id \notin DOMAIN schedules THEN schedules
    ELSE [schedules EXCEPT ![schedule.id].nextRun =
              Rescheduled(schedule, schedules[schedule.id].nextRun, t)]

\* check(): the primary map after `schedule` was sent by a scan whose now is t.
\* The scan holds the object it collected; an object that delete() or another
\* scan has taken out of the map meanwhile is changed without effect on the map.
FiredPrimary(schedule, t) ==
    IF schedule.id \notin DOMAIN schedules THEN schedules
    ELSE IF schedule.type = "once" THEN MapDelete(schedules, schedule.id)
    ELSE [schedules EXCEPT ![schedule.id].nextRun =
              Rescheduled(schedule, schedules[schedule.id].nextRun, t)]

\* check() deleting a sent `once` schedule from the primary map only
FiredIndexStale(schedule) == channelSchedules

\* check(): the index after `schedule` was sent
FiredIndex(schedule) ==
    IF schedule.type = "once"
    THEN IndexDelete(channelSchedules, schedule.channelId, schedule.id)
    ELSE channelSchedules

\* the history record of one invocation of the delivery hook: the task, the
\* occurrence (the nextRun / timestamp that made it due), the `now` of the
\* scan, and the number of this delivery among those of the task
Delivery(id, occ, at) ==
    [id |-> id, occ |-> occ, at |-> at,
     nth |-> Cardinality({d \in delivered : d.id = id}) + 1]

Scan(t, due, i, at, data) == [now |-> t, due |-> due, i |-> i, at |-> at, data |-> data]
Call(op, id, data) == [op |-> op, id |-> id, data |-> data]

\* the segment of check() from its call to its first await (or its return)
StartCheckS(primary, src) ==
    LET due == DueSchedules(primary, now)
    IN /\ scans' = IF due = <<>> THEN scans
                   ELSE Append(scans, Scan(now, due, 1, "send", NoData))

\* create() taking its id (`this.nextId++`) before it calls the parser: a
\* time text the parser rejects costs an id
createEager(channelId, timeString, createdBy) ==
    LET error == CreateError(channelId, timeString)
        schedule == Schedule(nextId, channelId, createdBy, parse(timeString, now))
    IN IF error # ""
       THEN [error |-> error, id |-> 0,
             nextId |-> IF error = "LIMIT_REACHED" THEN nextId ELSE nextId + 1,
             primary |-> schedules, index |-> channelSchedules, saves |-> FALSE]
       ELSE [error |-> "", id |-> schedule.id, nextId |-> nextId + 1,
             primary |-> MapSet(schedules, schedule.id, schedule),
             index |-> IndexAdd(channelSchedules, channelId, schedule.id),
             saves |-> TRUE]

\* ScheduleManager.create(channelId, message, timeString, createdBy) up to
\* its `await this.save()`, or to the throw that ends it: the error code ("" if
\* none), the id it assigned, the store it leaves, and whether it calls save
create(channelId, timeString, createdBy) ==
    LET error == CreateError(channelId, timeString)
        schedule == Schedule(nextId, channelId, createdBy, parse(timeString, now))
    IN IF error # ""
       THEN [error |-> error, id |-> 0, nextId |-> nextId, primary |-> schedules,
             index |-> channelSchedules, saves |-> FALSE]
       ELSE [error |-> "", id |-> schedule.id, nextId |-> nextId + 1,
             primary |-> MapSet(schedules, schedule.id, schedule),
             index |-> IndexAdd(channelSchedules, channelId, schedule.id),
             saves |-> TRUE]

\* ScheduleManager.delete(scheduleId, userId) up to its `await this.save()`, or
\* to the throw that ends it
delete(scheduleId, userId) ==
    LET error == DeleteError(scheduleId, userId)
    IN IF error # ""
       THEN [error |-> error, id |-> 0, nextId |-> nextId, primary |-> schedules,
             index |-> channelSchedules, saves |-> FALSE]
       ELSE [error |-> "", id |-> scheduleId, nextId |-> nextId,
             primary |-> MapDelete(schedules, scheduleId),
             index |-> IndexDelete(channelSchedules, schedules[scheduleId].channelId,
                                   scheduleId),
             saves |-> TRUE]

\* a !schedule create command: handleCommand calls manager.create
SCreate(channelId, timeString, createdBy) ==
    /\ bot = "ScheduleBot" /\ pc # "init"
    /\ LET r == create(channelId, timeString, createdBy)
       IN /\ r.saves => (creates < MaxSchedules /\ Len(calls) < MaxCalls)
          /\ nextId' = r.nextId
          /\ schedules' = r.primary
          /\ channelSchedules' = r.index
          /\ creates' = IF r.saves THEN creates + 1 ELSE creates
          /\ issued' = IF r.saves THEN Append(issued, r.id) ELSE issued
          /\ calls' = IF r.saves
                      THEN Append(calls, Call("create", r.id,
                               SaveData(r.nextId, r.primary, r.index, ChannelOrder)))
                      ELSE calls
    /\ UNCHANGED <<parseCall, bot, now, pc, checkTimer, reminders, userReminders, disk, scans, sends, delivered, faults>>

\* a !schedule delete command: handleCommand calls manager.delete
SDelete(scheduleId, userId) ==
    /\ bot = "ScheduleBot" /\ pc # "init"
    /\ LET r == delete(scheduleId, userId)
       IN /\ r.saves => Len(calls) < MaxCalls
          /\ nextId' = r.nextId
          /\ schedules' = r.primary
          /\ channelSchedules' = r.index
          /\ calls' = IF r.saves
                      THEN Append(calls, Call("delete", r.id,
                               SaveData(r.nextId, r.primary, r.index, ChannelOrder)))
                      ELSE calls
    /\ UNCHANGED <<parseCall, bot, now, pc, checkTimer, reminders, userReminders, disk, scans, sends, delivered, creates, faults, issued>>

\* the write of a suspended create()/delete() completes; save() logs a failure
\* and returns, and the call returns the schedule
SCallDone(k, ok) ==
    /\ (ok \/ faults < MaxFaults)
    /\ faults' = IF ok THEN faults ELSE faults + 1
    /\ bot = "ScheduleBot" /\ k \in 1..Len(calls)
    /\ disk' = IF ok THEN calls[k].data ELSE disk
    /\ calls' = RemoveAt(calls, k)
    /\ UNCHANGED <<parseCall, bot, now, pc, checkTimer, nextId, schedules, channelSchedules,
                   reminders, userReminders, scans, sends, delivered, creates, issued>>

\* a list that takes what it returns out of the channel's index set
SListConsuming(channelId) ==
    /\ bot = "ScheduleBot" /\ pc # "init"
    /\ channelSchedules' = [c \in DOMAIN channelSchedules |->
                               IF c = channelId THEN {} ELSE channelSchedules[c]]
    /\ UNCHANGED <<parseCall, bot, now, pc, checkTimer, nextId, schedules,
                   reminders, userReminders, disk, scans, calls, sends, delivered,
                   creates, faults, issued>>

\* the ScheduleBot command handler calls manager.list(message.channel.id)
SList(channelId) ==
    /\ bot = "ScheduleBot" /\ pc # "init"
    /\ UNCHANGED <<parseCall, bot, now, pc, checkTimer, nextId, schedules, channelSchedules,
                   reminders, userReminders, disk, scans, calls, sends, delivered, creates, faults, issued>>

\* the setInterval callback of startChecking fires and calls check(client).
\* The period (config.checkInterval, 30 s) is far below TickMs, so the clock
\* of the model may read the same at two consecutive callbacks.
STimer ==
    /\ bot = "ScheduleBot" /\ checkTimer /\ Len(scans) < MaxScans
    /\ StartCheckS(schedules, "timer")
    /\ UNCHANGED <<parseCall, bot, now, pc, checkTimer, nextId, schedules, channelSchedules,
                   reminders, userReminders, disk, calls, sends, delivered, creates, faults, issued>>

\* check() with the reschedule outside the try block: a schedule whose
\* delivery attempt failed is rescheduled or removed all the same
SSendDoneAlways(k, ok) ==
    /\ (ok \/ faults < MaxFaults)
    /\ faults' = IF ok THEN faults ELSE faults + 1
    /\ bot = "ScheduleBot" /\ k \in 1..Len(scans) /\ scans[k].at = "send"
    /\ LET sc == scans[k]
           schedule == sc.due[sc.i]
       IN /\ schedules' = FiredPrimary(schedule, sc.now)
          /\ channelSchedules' = FiredIndex(schedule)
          /\ delivered' = IF ok
                          THEN delivered \cup {Delivery(schedule.id, schedule.nextRun, sc.now)}
                          ELSE delivered
          /\ scans' = [scans EXCEPT ![k] =
                          IF sc.i < Len(sc.due)
                          THEN Scan(sc.now, sc.due, sc.i + 1, "send", NoData)
                          ELSE Scan(sc.now, sc.due, sc.i + 1, "save",
                                    SaveData(nextId, schedules', channelSchedules', ChannelOrder))]
    /\ UNCHANGED <<parseCall, bot, now, pc, checkTimer, nextId, reminders, userReminders, disk, calls, sends, creates, issued>>

\* check() with a save inside the loop: the file is written after every
\* delivery attempt
SSendDoneSaving(k, ok) ==
    /\ (ok \/ faults < MaxFaults)
    /\ faults' = IF ok THEN faults ELSE faults + 1
    /\ bot = "ScheduleBot" /\ k \in 1..Len(scans) /\ scans[k].at = "send"
    /\ LET sc == scans[k]
           schedule == sc.due[sc.i]
       IN /\ schedules' = IF ok THEN FiredPrimary(schedule, sc.now) ELSE schedules
          /\ channelSchedules' = IF ok THEN FiredIndex(schedule) ELSE channelSchedules
          /\ delivered' = IF ok
                          THEN delivered \cup {Delivery(schedule.id, schedule.nextRun, sc.now)}
                          ELSE delivered
          /\ disk' = SaveData(nextId, schedules', channelSchedules', ChannelOrder)
          /\ scans' = [scans EXCEPT ![k] =
                          IF sc.i < Len(sc.due)
                          THEN Scan(sc.now, sc.due, sc.i + 1, "send", NoData)
                          ELSE Scan(sc.now, sc.due, sc.i + 1, "save",
                                    SaveData(nextId, schedules', channelSchedules', ChannelOrder))]
    /\ UNCHANGED <<parseCall, bot, now, pc, checkTimer, nextId, reminders, userReminders, calls, sends, creates, issued>>

\* check(): the delivery attempt of scan k (channels.fetch, then channel.send)
\* completes, ok or with an exception, and the scan runs on to its next await:
\* the next delivery attempt, or the write of save()
SSendDone(k, ok) ==
    /\ (ok \/ faults < MaxFaults)
    /\ faults' = IF ok THEN faults ELSE faults + 1
    /\ bot = "ScheduleBot" /\ k \in 1..Len(scans) /\ scans[k].at = "send"
    /\ LET sc == scans[k]
           schedule == sc.due[sc.i]
       IN /\ schedules' = IF ok THEN FiredPrimary(schedule, sc.now) ELSE schedules
          /\ channelSchedules' = IF ok THEN FiredIndex(schedule) ELSE channelSchedules
          /\ delivered' = IF ok
                          THEN delivered \cup {Delivery(schedule.id, schedule.nextRun, sc.now)}
                          ELSE delivered
          /\ scans' = [scans EXCEPT ![k] =
                          IF sc.i < Len(sc.due)
                          THEN Scan(sc.now, sc.due, sc.i + 1, "send", NoData)
                          ELSE Scan(sc.now, sc.due, sc.i + 1, "save",
                                    SaveData(nextId, schedules', channelSchedules', ChannelOrder))]
    /\ UNCHANGED <<parseCall, bot, now, pc, checkTimer, nextId, reminders, userReminders, disk, calls, sends, creates, issued>>

\* check(): the write of save() completes and check returns
SScanDone(k, ok) ==
    /\ (ok \/ faults < MaxFaults)
    /\ faults' = IF ok THEN faults ELSE faults + 1
    /\ bot = "ScheduleBot" /\ k \in 1..Len(scans) /\ scans[k].at = "save"
    /\ disk' = IF ok THEN scans[k].data ELSE disk
    /\ scans' = RemoveAt(scans, k)
    /\ UNCHANGED <<parseCall, bot, now, pc, checkTimer, nextId, schedules, channelSchedules,
                   reminders, userReminders, calls, sends, delivered, creates, issued>>

\* a 'ready' handler that loads and arms the timer, and leaves the first
\* check to the timer
SLoadDoneNoCheck(ok) ==
    /\ bot = "ScheduleBot" /\ pc = "loading"
    /\ ok = (disk # NoFile)
    /\ pc' = "running"
    /\ checkTimer' = TRUE
    /\ IF ok
       THEN /\ nextId' = LoadNextId(disk)
            /\ schedules' = LoadPrimary(disk)
            /\ channelSchedules' = LoadIndex(disk)
       ELSE UNCHANGED <<nextId, schedules, channelSchedules>>
    /\ UNCHANGED <<parseCall, bot, now, reminders, userReminders, disk, scans, calls, delivered, sends, creates, faults, issued>>

\* ScheduleBot 'ready' handler: readFile of load() completes (ok, or with an
\* error such as ENOENT); load rebuilds the store, startChecking arms the
\* timer and the immediate check(client) runs to its first await
SLoadDone(ok) ==
    /\ bot = "ScheduleBot" /\ pc = "loading"
    /\ ok = (disk # NoFile)
    /\ pc' = "running"
    /\ checkTimer' = TRUE
    /\ IF ok
       THEN /\ nextId' = LoadNextId(disk)
            /\ schedules' = LoadPrimary(disk)
            /\ channelSchedules' = LoadIndex(disk)
       ELSE UNCHANGED <<nextId, schedules, channelSchedules>>
    /\ StartCheckS(schedules', "ready")
    /\ UNCHANGED <<parseCall, bot, now, reminders, userReminders, disk, calls, delivered, sends, creates, faults, issued>>

-----------------------------------------------------------------------------
(* RemindBot TimeParser (src/code1.js)                                     *)
(*                                                                         *)
(* pat is "relative", "recurring", "tomorrow", "absolute" or "nomatch".    *)
(* amount and hour are -1 when the optional group did not take part in the *)
(* match; unit is the captured alias.                                      *)

\* the table with the one-letter aliases missing: the lookup of a missing key
\* is undefined and the product NaN, taken here as 0
multipliersLongOnly(unit) ==
    CASE unit \in {"second", "sec"} -> SecondMs
      [] unit \in {"minute", "min"} -> MinuteMs
      [] unit \in {"hour", "hr"} -> HourMs
      [] unit = "day" -> DayMs
      [] unit = "week" -> WeekMs
      [] OTHER -> 0

multipliers(unit) ==
    CASE unit \in {"second", "sec", "s"} -> SecondMs
      [] unit \in {"minute", "min", "m"} -> MinuteMs
      [] unit \in {"hour", "hr", "h"} -> HourMs
      [] unit \in {"day", "d"} -> DayMs
      [] unit \in {"week", "w"} -> WeekMs

calculateTimeToday(hour, minute, meridiem, t) ==
    LET adjustedHour == IF meridiem = "pm" /\ hour # 12 THEN hour + 12
                        ELSE IF meridiem = "am" /\ hour = 12 THEN 0
                        ELSE hour
    IN DateAt(t, 0, adjustedHour, minute)

calculateTimeTomorrow(hour, minute, meridiem, t) ==
    calculateTimeToday(hour, minute, meridiem, t) + DayMs

\* what parse returns; interval 0 stands for null, ok = FALSE for the thrown
\* ReminderError
Parsed(timestamp, interval, isRecurring) ==
    [ok |-> TRUE, code |-> "", timestamp |-> timestamp, interval |-> interval,
     isRecurring |-> isRecurring]
ParseFailR(code) ==
    [ok |-> FALSE, code |-> code, timestamp |-> 0, interval |-> 0, isRecurring |-> FALSE]

parseR(input, t) ==
    CASE input.pat = "relative" ->
           Parsed(t + (input.amount * multipliers(input.unit)), 0, FALSE)
      [] input.pat = "recurring" ->
           LET interval == (IF input.amount <= 0 THEN 1 ELSE input.amount)
                               * multipliers(input.unit)
               today == calculateTimeToday(input.hour, input.minute, input.meridiem, t)
           IN IF input.hour >= 0
              THEN Parsed(IF today < t THEN today + interval ELSE today, interval, TRUE)
              ELSE Parsed(t + interval, interval, TRUE)
      [] input.pat = "tomorrow" ->
           Parsed(calculateTimeTomorrow(input.hour, input.minute, input.meridiem, t), 0, FALSE)
      [] input.pat = "absolute" ->
           LET today == calculateTimeToday(input.hour, input.minute, input.meridiem, t)
           IN Parsed(IF today < t THEN today + DayMs ELSE today, 0, FALSE)
      [] OTHER -> ParseFailR("PARSE_FAILED")

TimeStringsR ==
    { TimeString("relative", "", -1, 0, "", 12, "hour"),
      TimeString("recurring", "", -1, 0, "", 12, "hour"),
      TimeString("nomatch", "", -1, 0, "", -1, "") }

-----------------------------------------------------------------------------
(* ReminderManager (src/code1.js)                                          *)

Reminder(id, userId, channelId, parsed) ==
    [id |-> id, userId |-> userId, channelId |-> channelId,
     timestamp |-> parsed.timestamp, interval |-> parsed.interval,
     isRecurring |-> parsed.isRecurring, triggered |-> FALSE]

\* userReminderSet.size >= config.maxRemindersPerUser
UserLimitReached(userId) ==
    Cardinality(ChannelSet(userReminders, userId)) >= maxRemindersPerUser

\* create(): the code of the error it throws before touching the store
CreateErrorR(userId, timeString) ==
    IF UserLimitReached(userId) THEN "LIMIT_REACHED"
    ELSE IF ~parseR(timeString, now).ok THEN parseR(timeString, now).code
    ELSE ""

\* delete(): the code of the error it throws before touching the store
DeleteErrorR(reminderId, userId) ==
    IF reminderId \notin DOMAIN reminders THEN "NOT_FOUND"
    ELSE IF reminders[reminderId].userId # userId THEN "UNAUTHORIZED"
    ELSE ""

\* ReminderManager.list(userId)
listR(userId) ==
    LET ids == SetToSeq(ChannelSet(userReminders, userId))
        found == SelectSeq(ids, LAMBDA k : k \in DOMAIN reminders)
        sorted == SortByKey([j \in 1..Len(found) |->
                                [key |-> reminders[found[j]].timestamp,
                                 val |-> reminders[found[j]]]])
    IN [j \in 1..Len(sorted) |-> sorted[j].val]

\* check(), first pass: the reminders pushed to `triggered`, as they were
\* when the pass reached them
Triggered(primary, t) ==
    LET ids == SetToSeq(DOMAIN primary)
        hit == SelectSeq(ids, LAMBDA k : ~primary[k].triggered /\ primary[k].timestamp <= t)
    IN [j \in 1..Len(hit) |-> primary[hit[j]]]

\* check(), first pass: what it makes of one reminder
FirstPass(reminder, t) ==
    IF ~reminder.triggered /\ reminder.timestamp <= t
    THEN (IF reminder.isRecurring /\ reminder.interval # 0
          THEN [reminder EXCEPT !.timestamp = t + reminder.interval]
          ELSE [reminder EXCEPT !.triggered = TRUE])
    ELSE reminder

\* check(), second pass: the reminders it takes out of both maps
Cleanup(primary) == {k \in DOMAIN primary : primary[k].triggered /\ ~primary[k].isRecurring}

\* the primary map after both passes of check()
CheckedPrimary(primary, t) ==
    LET marked == [k \in DOMAIN primary |-> FirstPass(primary[k], t)]
    IN [k \in (DOMAIN marked) \ Cleanup(marked) |-> marked[k]]

\* the index after both passes of check()
CheckedIndex(primary, index, t) ==
    LET marked == [k \in DOMAIN primary |-> FirstPass(primary[k], t)]
        gone == Cleanup(marked)
    IN [u \in DOMAIN index |-> index[u] \ {k \in gone : marked[k].userId = u}]

\* the segment of check() from its call to `await this.save()` (or its return)
StartCheckR(nid, primary, index, src) ==
    LET triggered == Triggered(primary, now)
    IN /\ reminders' = CheckedPrimary(primary, now)
       /\ userReminders' = CheckedIndex(primary, index, now)
       /\ scans' = IF triggered = <<>> THEN scans
                   ELSE Append(scans, Scan(now, triggered, 1, "save",
                                   SaveData(nid, reminders', userReminders', UserOrder)))

\* ReminderManager.create(userId, channelId, message, timeString) up to its
\* `await this.save()`, or to the throw that ends it
createR(userId, channelId, timeString) ==
    LET error == CreateErrorR(userId, timeString)
        reminder == Reminder(nextId, userId, channelId, parseR(timeString, now))
    IN IF error # ""
       THEN [error |-> error, id |-> 0, nextId |-> nextId, primary |-> reminders,
             index |-> userReminders, saves |-> FALSE]
       ELSE [error |-> "", id |-> reminder.id, nextId |-> nextId + 1,
             primary |-> MapSet(reminders, reminder.id, reminder),
             index |-> IndexAdd(userReminders, userId, reminder.id),
             saves |-> TRUE]

\* ReminderManager.delete(reminderId, userId) up to its `await this.save()`, or
\* to the throw that ends it
deleteR(reminderId, userId) ==
    LET error == DeleteErrorR(reminderId, userId)
    IN IF error # ""
       THEN [error |-> error, id |-> 0, nextId |-> nextId, primary |-> reminders,
             index |-> userReminders, saves |-> FALSE]
       ELSE [error |-> "", id |-> reminderId, nextId |-> nextId,
             primary |-> MapDelete(reminders, reminderId),
             index |-> IndexDelete(userReminders, userId, reminderId),
             saves |-> TRUE]

\* a !remind command that creates: handleCommand calls manager.create
RCreate(userId, channelId, timeString) ==
    /\ bot = "ReminderBot" /\ pc # "init"
    /\ LET r == createR(userId, channelId, timeString)
       IN /\ r.saves => (creates < MaxReminders /\ Len(calls) < MaxCalls)
          /\ nextId' = r.nextId
          /\ reminders' = r.primary
          /\ userReminders' = r.index
          /\ creates' = IF r.saves THEN creates + 1 ELSE creates
          /\ issued' = IF r.saves THEN Append(issued, r.id) ELSE issued
          /\ calls' = IF r.saves
                      THEN Append(calls, Call("create", r.id,
                               SaveData(r.nextId, r.primary, r.index, UserOrder)))
                      ELSE calls
    /\ UNCHANGED <<parseCall, bot, now, pc, checkTimer, schedules, channelSchedules, disk, scans,
                   sends, delivered, faults>>

\* a !remind delete command: handleCommand calls manager.delete
RDelete(reminderId, userId) ==
    /\ bot = "ReminderBot" /\ pc # "init"
    /\ LET r == deleteR(reminderId, userId)
       IN /\ r.saves => Len(calls) < MaxCalls
          /\ nextId' = r.nextId
          /\ reminders' = r.primary
          /\ userReminders' = r.index
          /\ calls' = IF r.saves
                      THEN Append(calls, Call("delete", r.id,
                               SaveData(r.nextId, r.primary, r.index, UserOrder)))
                      ELSE calls
    /\ UNCHANGED <<parseCall, bot, now, pc, checkTimer, schedules, channelSchedules, disk,
                   scans, sends, delivered, creates, faults, issued>>

\* a create()/delete() whose failed write is undone in memory: the task of
\* the call is taken out of both maps again
RCallDoneUndo(k, ok) ==
    /\ (ok \/ faults < MaxFaults)
    /\ faults' = IF ok THEN faults ELSE faults + 1
    /\ bot = "ReminderBot" /\ k \in 1..Len(calls)
    /\ disk' = IF ok THEN calls[k].data ELSE disk
    /\ calls' = RemoveAt(calls, k)
    /\ reminders' = IF ok THEN reminders ELSE MapDelete(reminders, calls[k].id)
    /\ userReminders' = IF ok \/ calls[k].id \notin DOMAIN reminders THEN userReminders
                        ELSE IndexDelete(userReminders, reminders[calls[k].id].userId,
                                         calls[k].id)
    /\ UNCHANGED <<parseCall, bot, now, pc, checkTimer, nextId, schedules, channelSchedules,
                   scans, sends, delivered, creates, issued>>

\* the write of a suspended create()/delete() completes; save() rethrows a
\* failure, which the call passes on to its caller
RCallDone(k, ok) ==
    /\ (ok \/ faults < MaxFaults)
    /\ faults' = IF ok THEN faults ELSE faults + 1
    /\ bot = "ReminderBot" /\ k \in 1..Len(calls)
    /\ disk' = IF ok THEN calls[k].data ELSE disk
    /\ calls' = RemoveAt(calls, k)
    /\ UNCHANGED <<parseCall, bot, now, pc, checkTimer, nextId, schedules, channelSchedules,
                   reminders, userReminders, scans, sends, delivered, creates, issued>>

\* the RemindBot command handler calls manager.list(message.author.id)
RList(userId) ==
    /\ bot = "ReminderBot" /\ pc # "init"
    /\ UNCHANGED <<parseCall, bot, now, pc, checkTimer, nextId, schedules, channelSchedules,
                   reminders, userReminders, disk, scans, calls, sends, delivered, creates, faults, issued>>

\* the setInterval callback of startChecking fires and calls check()
RTimer ==
    /\ bot = "ReminderBot" /\ checkTimer /\ Len(scans) < MaxScans
    /\ StartCheckR(nextId, reminders, userReminders, "timer")
    /\ UNCHANGED <<parseCall, bot, now, pc, checkTimer, nextId, schedules, channelSchedules,
                   disk, calls, sends, delivered, creates, faults, issued>>

\* check() called by a timer callback that does not catch the rejection: the
\* unhandled rejection ends the process, and the timer with it
RScanDoneUncaught(k, ok) ==
    /\ (ok \/ faults < MaxFaults)
    /\ faults' = IF ok THEN faults ELSE faults + 1
    /\ bot = "ReminderBot" /\ k \in 1..Len(scans) /\ scans[k].at = "save"
    /\ LET sc == scans[k]
       IN /\ disk' = IF ok THEN sc.data ELSE disk
          /\ delivered' = IF ok
                          THEN delivered \cup {Delivery(sc.due[j].id, sc.due[j].timestamp, sc.now) :
                                                j \in 1..Len(sc.due)}
                          ELSE delivered
          /\ sends' = IF ok THEN sends + Len(sc.due) ELSE sends
    /\ scans' = RemoveAt(scans, k)
    /\ checkTimer' = (ok /\ checkTimer)
    /\ UNCHANGED <<parseCall, bot, now, pc, nextId, schedules, channelSchedules,
                   reminders, userReminders, calls, creates, issued>>

\* check(): the write of save() completes.  On success check emits
\* 'reminder:trigger' for every reminder of `triggered`; each emit runs the
\* listener to the first await of sendReminder.  On failure save() rethrows
\* and check rejects before the emits.
RScanDone(k, ok) ==
    /\ (ok \/ faults < MaxFaults)
    /\ faults' = IF ok THEN faults ELSE faults + 1
    /\ bot = "ReminderBot" /\ k \in 1..Len(scans) /\ scans[k].at = "save"
    /\ LET sc == scans[k]
       IN /\ disk' = IF ok THEN sc.data ELSE disk
          /\ delivered' = IF ok
                          THEN delivered \cup {Delivery(sc.due[j].id, sc.due[j].timestamp, sc.now) :
                                                j \in 1..Len(sc.due)}
                          ELSE delivered
          /\ sends' = IF ok THEN sends + Len(sc.due) ELSE sends
    /\ scans' = RemoveAt(scans, k)
    /\ UNCHANGED <<parseCall, bot, now, pc, checkTimer, nextId, schedules, channelSchedules,
                   reminders, userReminders, calls, creates, issued>>

\* a sendReminder call completes (sent, or the error was caught and logged)
RSendDone ==
    /\ bot = "ReminderBot" /\ sends > 0
    /\ sends' = sends - 1
    /\ UNCHANGED <<parseCall, bot, now, pc, checkTimer, nextId, schedules, channelSchedules,
                   reminders, userReminders, disk, scans, calls, delivered, creates, faults, issued>>

\* ReminderBot 'ready' handler: readFile of load() completes; load rebuilds
\* the store, startChecking arms the timer and the immediate check() runs to
\* its first await
RLoadDone(ok) ==
    /\ bot = "ReminderBot" /\ pc = "loading"
    /\ ok = (disk # NoFile)
    /\ pc' = "running"
    /\ checkTimer' = TRUE
    /\ nextId' = IF ok THEN LoadNextId(disk) ELSE nextId
    /\ StartCheckR(nextId',
                   IF ok THEN LoadPrimary(disk) ELSE reminders,
                   IF ok THEN LoadIndex(disk) ELSE userReminders, "ready")
    /\ UNCHANGED <<parseCall, bot, now, schedules, channelSchedules, disk, calls, sends, delivered, creates, faults, issued>>

-----------------------------------------------------------------------------
(* The environment of both programs *)

\* the client emits 'ready': the handler calls load(), which awaits readFile
Ready ==
    /\ pc = "init"
    /\ pc' = "loading"
    /\ UNCHANGED <<parseCall, bot, now, checkTimer, nextId, schedules, channelSchedules,
                   reminders, userReminders, disk, scans, calls, sends, delivered, creates, faults, issued>>

\* time passes
Tick ==
    /\ pc = "running" /\ calls = <<>>
    /\ now + TickMs <= MaxTime
    /\ now' = now + TickMs
    /\ UNCHANGED <<parseCall, bot, pc, checkTimer, nextId, schedules, channelSchedules,
                   reminders, userReminders, disk, scans, calls, sends, delivered, creates, faults, issued>>

\* The data files an earlier run may have left behind.  The earlier run made
\* its commands on day 2 at 12:00 (all by u1) and the process was down since,
\* so nothing it scheduled has fired.
PrevTime == (2 * DayMs) + (12 * HourMs)

\* ScheduleBot, after "daily 8am"
PrevFileS1 ==
    LET s1 == Schedule(1, "c1", "u1", parse(TimeString("daily", "", 8, 0, "am", 0, ""), PrevTime))
    IN SaveData(2, MapSet(EmptyMap, 1, s1), MapSet(EmptyMap, "c1", {1}), ChannelOrder)

\* ScheduleBot, after "every 12 hours" in c1 and "today 11pm" in c2
PrevFileS2 ==
    LET s1 == Schedule(1, "c1", "u1", parse(TimeString("every", "", 0, 0, "", 12, "hour"), PrevTime))
        s2 == Schedule(2, "c2", "u1", parse(TimeString("today", "", 11, 0, "pm", 0, ""), PrevTime))
    IN SaveData(3, MapSet(MapSet(EmptyMap, 1, s1), 2, s2),
                MapSet(MapSet(EmptyMap, "c1", {1}), "c2", {2}), ChannelOrder)

\* RemindBot, after "every 1 day"
PrevFileR1 ==
    LET r1 == Reminder(1, "u1", "c1", parseR(TimeString("recurring", "", -1, 0, "", 1, "day"), PrevTime))
    IN SaveData(2, MapSet(EmptyMap, 1, r1), MapSet(EmptyMap, "u1", {1}), UserOrder)

\* RemindBot, after "every 1 day" and "in 6 hours"
PrevFileR2 ==
    LET r1 == Reminder(1, "u1", "c1", parseR(TimeString("recurring", "", -1, 0, "", 1, "day"), PrevTime))
        r2 == Reminder(2, "u1", "c1", parseR(TimeString("relative", "", -1, 0, "", 6, "hour"), PrevTime))
    IN SaveData(3, MapSet(MapSet(EmptyMap, 1, r1), 2, r2),
                MapSet(EmptyMap, "u1", {1, 2}), UserOrder)

PrevFiles ==
    IF bot = "ScheduleBot" THEN {PrevFileS1, PrevFileS2} ELSE {PrevFileR1, PrevFileR2}

Init ==
    /\ bot \in {"ScheduleBot", "ReminderBot"}
    /\ now = T0
    /\ pc = "init"
    /\ checkTimer = FALSE
    /\ nextId = 1
    /\ schedules = EmptyMap
    /\ channelSchedules = EmptyMap
    /\ reminders = EmptyMap
    /\ userReminders = EmptyMap
    /\ disk \in {NoFile} \cup PrevFiles
    /\ scans = <<>>
    /\ calls = <<>>
    /\ sends = 0
    /\ creates = IF disk = NoFile THEN 0 ELSE Len(disk.tasks)
    /\ faults = 0
    /\ issued = <<>>
    /\ delivered = {}
    /\ parseCall = NoParse

Next ==
    \/ Ready
    \/ Tick
    \/ \E ok \in BOOLEAN : SLoadDone(ok)
    \/ \E c \in Channels, ts \in TimeStrings, u \in Creators : SCreate(c, ts, u)
    \/ \E id \in Ids, u \in Users : SDelete(id, u)
    \/ \E k \in 1..MaxCalls, ok \in BOOLEAN : SCallDone(k, ok)
    \/ \E c \in Channels : SList(c)
    \/ STimer
    \/ \E k \in 1..MaxScans, ok \in BOOLEAN : SSendDone(k, ok)
    \/ \E k \in 1..MaxScans, ok \in BOOLEAN : SScanDone(k, ok)
    \/ \E ok \in BOOLEAN : RLoadDone(ok)
    \/ \E u \in Creators, c \in ReplyChannels, ts \in TimeStringsR : RCreate(u, c, ts)
    \/ \E id \in Ids, u \in Users : RDelete(id, u)
    \/ \E k \in 1..MaxCalls, ok \in BOOLEAN : RCallDone(k, ok)
    \/ \E u \in Users : RList(u)
    \/ RTimer
    \/ \E k \in 1..MaxScans, ok \in BOOLEAN : RScanDone(k, ok)
    \/ RSendDone

Spec == Init /\ [][Next]_vars

-----------------------------------------------------------------------------
(* Properties *)

\* the ids that occur anywhere in a store
StoreIds(primary, index) == (DOMAIN primary) \cup UNION {index[k] : k \in DOMAIN index}
\* the keys of the index sets that hold id
IndexKeysOf(index, id) == {k \in DOMAIN index : id \in index[k]}

\* C1: dual-index consistency.  In every reachable state, also while create,
\* delete or a scan is suspended at an await, an id is a key of the primary
\* map iff it is a member of exactly one index set, and that set is the one
\* keyed by the task's own destination (channelId / userId).
C1_DualIndex ==
    /\ \A id \in StoreIds(schedules, channelSchedules) :
          /\ id \in DOMAIN schedules
          /\ IndexKeysOf(channelSchedules, id) = {schedules[id].channelId}
    /\ \A id \in StoreIds(reminders, userReminders) :
          /\ id \in DOMAIN reminders
          /\ IndexKeysOf(userReminders, id) = {reminders[id].userId}

\* a scan is suspended after it has sent and removed a `once` schedule, and
\* the store still holds another schedule
C1_Witness ==
    /\ bot = "ScheduleBot" /\ scans # <<>> /\ schedules # EmptyMap
    /\ \E d \in delivered : d.id \notin DOMAIN schedules

\* C2: the delivery hook is invoked exactly once for each occurrence of a task
\* becoming due: no two invocations are for the same task and the same
\* occurrence, also when a scan starts while an earlier one is suspended.
C2_DeliveredOnce ==
    \A d1, d2 \in delivered : (d1.id = d2.id /\ d1.occ = d2.occ) => d1 = d2

\* C3: no index set ever holds more than the per-destination limit, and a
\* create for a destination that holds the limit fails with LIMIT_REACHED and
\* leaves the destination's count at the limit.
C3_LimitRespected ==
    /\ \A c \in DOMAIN channelSchedules :
          Cardinality(channelSchedules[c]) <= maxSchedulesPerChannel
    /\ \A u \in DOMAIN userReminders :
          Cardinality(userReminders[u]) <= maxRemindersPerUser
    /\ \A c \in Channels, ts \in TimeStrings, u \in Creators :
          Cardinality(ChannelSet(channelSchedules, c)) >= maxSchedulesPerChannel =>
              /\ create(c, ts, u).error = "LIMIT_REACHED"
              /\ Cardinality(ChannelSet(create(c, ts, u).index, c)) = maxSchedulesPerChannel
    /\ \A u \in Users, c \in ReplyChannels, ts \in TimeStringsR :
          Cardinality(ChannelSet(userReminders, u)) >= maxRemindersPerUser =>
              /\ createR(u, c, ts).error = "LIMIT_REACHED"
              /\ Cardinality(ChannelSet(createR(u, c, ts).index, u)) = maxRemindersPerUser

\* two create calls for the same user are suspended at their saves, their
\* reminders fill the user's limit, and a further create command (while both
\* are still suspended) fails with LIMIT_REACHED
C3_Witness ==
    /\ bot = "ReminderBot" /\ pc # "init" /\ Len(calls) = 2
    /\ \E u \in Users :
          /\ Cardinality(ChannelSet(userReminders, u)) = maxRemindersPerUser
          /\ \A k \in 1..2 : calls[k].op = "create" /\ calls[k].id \in ChannelSet(userReminders, u)
          /\ \E ts \in TimeStringsR :
                parseR(ts, now).ok /\ createR(u, "c1", ts).error = "LIMIT_REACHED"

\* C4: a delete that fails leaves the store unchanged.  delete of an id not in
\* the store fails with NOT_FOUND, delete by a requester who is not the owner
\* fails with UNAUTHORIZED, and in both cases the primary map, the index,
\* every task's fields and nextId are as before and save is not called.
C4_FailedDeleteNoEffect ==
    /\ \A id \in Ids, u \in Users :
          LET r == delete(id, u)
          IN /\ id \notin DOMAIN schedules => r.error = "NOT_FOUND"
             /\ (id \in DOMAIN schedules /\ schedules[id].createdBy # u) =>
                    r.error = "UNAUTHORIZED"
             /\ r.error # "" =>
                    /\ r.primary = schedules /\ r.index = channelSchedules
                    /\ r.nextId = nextId /\ ~r.saves
    /\ \A id \in Ids, u \in Users :
          LET r == deleteR(id, u)
          IN /\ id \notin DOMAIN reminders => r.error = "NOT_FOUND"
             /\ (id \in DOMAIN reminders /\ reminders[id].userId # u) =>
                    r.error = "UNAUTHORIZED"
             /\ r.error # "" =>
                    /\ r.primary = reminders /\ r.index = userReminders
                    /\ r.nextId = nextId /\ ~r.saves

\* the running bot holds a schedule that u2 does not own, and an id is free
C4_Witness ==
    /\ bot = "ScheduleBot" /\ pc = "running"
    /\ \E id \in Ids : delete(id, "u2").error = "UNAUTHORIZED"
    /\ \E id \in Ids : delete(id, "u2").error = "NOT_FOUND"

\* the task under id in the primary map is gone, or is another task
GoneS(id) ==
    \/ id \notin DOMAIN schedules'
    \/ [schedules'[id] EXCEPT !.nextRun = 0] # [schedules[id] EXCEPT !.nextRun = 0]
GoneR(id) ==
    \/ id \notin DOMAIN reminders'
    \/ [reminders'[id] EXCEPT !.timestamp = 0] # [reminders[id] EXCEPT !.timestamp = 0]

\* C5: a created task leaves the store only by a delete whose requester is
\* its owner, or by a scan that fires it while it is a one-time task; no
\* other step (a delete by someone else, a scan of a recurring or interval
\* task, a failed create, list, save, load) removes it.  A ScheduleManager
\* create that has inserted its task always returns it; a ReminderManager
\* create returns it only if its write succeeds, so the reminders looked at
\* are those of states where every write so far has completed and succeeded.
C5_LeavesByDeleteOrOnce ==
    [][ /\ \A id \in DOMAIN schedules :
              GoneS(id) =>
                  \/ SDelete(id, schedules[id].createdBy)
                  \/ \E k \in 1..Len(scans) :
                        /\ SSendDone(k, TRUE)
                        /\ scans[k].due[scans[k].i].id = id
                        /\ schedules[id].type = "once"
        /\ \A id \in DOMAIN reminders :
              (calls = <<>> /\ faults = 0 /\ GoneR(id)) =>
                  \/ RDelete(id, reminders[id].userId)
                  \/ /\ RTimer \/ RLoadDone(FALSE)
                     /\ ~reminders[id].isRecurring /\ reminders[id].timestamp <= now
      ]_vars

\* C6: ids are unique and strictly increasing: every create assigns an id
\* greater than every id assigned before it (so no id of a deleted or fired
\* task is assigned again), and nextId is greater than the id of every task in
\* the store, also after load.
C6_IdsIncrease ==
    /\ \A i, j \in 1..Len(issued) : i < j => issued[i] < issued[j]
    /\ \A id \in DOMAIN schedules : id < nextId
    /\ \A id \in DOMAIN reminders : id < nextId

\* a step in which check() has been called and has taken a due-set (the
\* segment of the timer callback or of the 'ready' handler)
ScanStarted == Len(scans') = Len(scans) + 1
\* a step in which the 'ready' handler has gone through load and check
Started == pc = "loading" /\ pc' = "running"
\* the scan a completed write belonged to
EndedScan(k) == k \in 1..Len(scans) /\ scans[k].at = "save" /\ scans' = RemoveAt(scans, k)

C8_IntervalSpacing ==
    /\ \A d1, d2 \in delivered :
          (/\ d1.id = d2.id /\ d1 # d2
           /\ d1.id \in DOMAIN schedules /\ schedules[d1.id].type = "interval") =>
              \/ d2.at - d1.at >= schedules[d1.id].intervalMs
              \/ d1.at - d2.at >= schedules[d1.id].intervalMs
    /\ \A d1, d2 \in delivered :
          (/\ d1.id = d2.id /\ d1 # d2
           /\ d1.id \in DOMAIN reminders /\ reminders[d1.id].isRecurring) =>
              \/ d2.at - d1.at >= reminders[d1.id].interval
              \/ d1.at - d2.at >= reminders[d1.id].interval

Loaded(data) ==
    [nextId |-> LoadNextId(data), primary |-> LoadPrimary(data), index |-> LoadIndex(data)]

CallEnded(k) == k \in 1..Len(calls) /\ calls' = RemoveAt(calls, k)
\* ... and returns the task: ScheduleManager.save swallows a write error,
\* ReminderManager.save rethrows it and the call rejects
ReturnedOk(k) == CallEnded(k) /\ (bot = "ScheduleBot" \/ faults' = faults)
\* the data file holds the task with this id, and a nextId above it
Persisted(file, id) ==
    /\ file # NoFile
    /\ \E j \in 1..Len(file.tasks) : file.tasks[j].id = id
    /\ file.nextId > id

\* C12: whenever create returns success, the data file holds the created task
\* and the advanced nextId, whatever the outcome of the write create awaited.
C12_CreateDurable ==
    [][ \A k \in 1..Len(calls) :
            (ReturnedOk(k) /\ calls[k].op = "create") => Persisted(disk', calls[k].id)
      ]_vars

\* C13: a write that fails inside create or delete is never reported to the
\* caller as a failure of the operation: the call whose store change is
\* already made returns the created / deleted task also when its write fails.
C13_SaveFailureNotReported ==
    [][ \A k \in 1..Len(calls) :
            (CallEnded(k) /\ faults' # faults) => ReturnedOk(k)
      ]_vars

\* the step in which the delivery attempt of scan k has failed: the only step
\* that counts a fault and moves a scan on
SendFailed(k) ==
    /\ bot = "ScheduleBot" /\ k \in 1..Len(scans) /\ scans[k].at = "send"
    /\ faults' = faults + 1
    /\ Len(scans') = Len(scans) /\ scans'[k].i = scans[k].i + 1

-----------------------------------------------------------------------------
(* The two parsers on their own: one call of TimeParser.parse, at one of a  *)
(* week of clock readings, on one of the inputs the patterns can capture    *)

\* the \d{1,2} hour group and the \d{2} minute group, in and out of range
ParseHours == (0..13) \cup {23, 24, 25}
ParseMinutes == {0, 30, 75}
Meridiems == {"", "am", "pm"}
Weekdays == {"sunday", "monday", "tuesday", "wednesday", "thursday", "friday", "saturday"}
\* the \d+ group of "in N unit" and "every N unit"
Amounts == {0, 1, 2}
\* the unit aliases of the `relative` pattern and the units of `recurring`
UnitAliases == {"second", "sec", "s", "minute", "min", "m", "hour", "hr", "h",
                "day", "d", "week", "w"}
RecurringUnits == {"second", "minute", "hour", "day", "week"}

\* Date.now() at the call: every day of the week starting with the Sunday of
\* T0, at 0:00, 9:00, 9:10, 12:00, 12:45 and 23:30
ClockTimes == {0, 9 * HourMs, (9 * HourMs) + (10 * MinuteMs), 12 * HourMs,
               (12 * HourMs) + (45 * MinuteMs), (23 * HourMs) + (30 * MinuteMs)}
ParseTimes == {DayStart(T0) + (d * DayMs) + c : d \in 0..6, c \in ClockTimes}

\* what the ScheduleBot patterns can capture
ParseInputs ==
    {TimeString(p, "", h, mi, mer, 0, "") :
         p \in {"daily", "tomorrow", "today"}, h \in ParseHours,
         mi \in ParseMinutes, mer \in Meridiems}
    \cup {TimeString("weekly", d, h, mi, mer, 0, "") :
              d \in Weekdays, h \in ParseHours, mi \in ParseMinutes, mer \in Meridiems}
    \cup {TimeString("every", "", 0, 0, "", n, u) : n \in Amounts, u \in {"hour", "minute"}}
    \cup {TimeString("nomatch", "", 0, 0, "", 0, "")}

\* what the RemindBot patterns can capture
ParseInputsR ==
    {TimeString("relative", "", -1, 0, "", n, u) : n \in Amounts, u \in UnitAliases}
    \cup {TimeString("recurring", "", -1, 0, "", n, u) :
              n \in {-1} \cup Amounts, u \in RecurringUnits}
    \cup {TimeString("recurring", "", h, mi, mer, n, u) :
              h \in ParseHours, mi \in ParseMinutes, mer \in Meridiems,
              n \in {-1, 2}, u \in {"hour", "day"}}
    \cup {TimeString(p, "", h, mi, mer, -1, "") :
              p \in {"tomorrow", "absolute"}, h \in ParseHours,
              mi \in ParseMinutes, mer \in Meridiems}
    \cup {TimeString("nomatch", "", -1, 0, "", -1, "")}

InitParse ==
    /\ bot \in {"ScheduleBot", "ReminderBot"}
    /\ now \in ParseTimes
    /\ pc = "init"
    /\ checkTimer = FALSE
    /\ nextId = 1
    /\ schedules = EmptyMap
    /\ channelSchedules = EmptyMap
    /\ reminders = EmptyMap
    /\ userReminders = EmptyMap
    /\ disk = NoFile
    /\ scans = <<>>
    /\ calls = <<>>
    /\ sends = 0
    /\ creates = 0
    /\ faults = 0
    /\ issued = <<>>
    /\ delivered = {}
    /\ parseCall = NoParse

\* ScheduleBot: this.parser.parse(timeString)
SParse(timeString) ==
    /\ bot = "ScheduleBot" /\ parseCall = NoParse
    /\ parseCall' = [at |-> now, input |-> timeString, plan |-> parse(timeString, now)]
    /\ UNCHANGED <<bot, now, pc, checkTimer, nextId, schedules, channelSchedules,
                   reminders, userReminders, disk, scans, calls, sends, creates,
                   faults, issued, delivered>>

\* RemindBot: this.parser.parse(timeString)
RParse(timeString) ==
    /\ bot = "ReminderBot" /\ parseCall = NoParse
    /\ parseCall' = [at |-> now, input |-> timeString, plan |-> parseR(timeString, now)]
    /\ UNCHANGED <<bot, now, pc, checkTimer, nextId, schedules, channelSchedules,
                   reminders, userReminders, disk, scans, calls, sends, creates,
                   faults, issued, delivered>>

NextParse ==
    \/ \E ts \in ParseInputs : SParse(ts)
    \/ \E ts \in ParseInputsR : RParse(ts)

SpecParse == InitParse /\ [][NextParse]_vars

\* a call of parse has been made
Called == parseCall # NoParse
\* the input's pattern has the hour, minute and meridiem groups, and they
\* took part in the match
HasTime == Called /\ parseCall.input.hour >= 0
              /\ parseCall.input.pat \in {"daily", "weekly", "tomorrow", "today",
                                          "recurring", "absolute"}
\* the hour of the day the captured hour and meridiem stand for
Hour24(hour, meridiem) ==
    IF meridiem = "pm" /\ hour # 12 THEN hour + 12
    ELSE IF meridiem = "am" /\ hour = 12 THEN 0
    ELSE hour
\* the captured time of day exists: 0..23 (1..12 with a meridiem), minute 0..59
ValidTime(hour, minute, meridiem) ==
    /\ minute \in 0..59
    /\ IF meridiem = "" THEN hour \in 0..23 ELSE hour \in 1..12
\* the instant the plan of the call is for
PlanTime ==
    IF bot = "ScheduleBot" THEN parseCall.plan.nextRun ELSE parseCall.plan.timestamp

\* C15: a time expression whose hour (after the meridiem conversion) is above
\* 23 or whose minute is above 59 is rejected: parse returns no plan.
C15_OutOfRangeRejected ==
    (HasTime /\ (Hour24(parseCall.input.hour, parseCall.input.meridiem) > 23
                   \/ parseCall.input.minute > 59)) =>
        (~parseCall.plan.ok /\ parseCall.plan.code = "INVALID_TIME")

\* C16: for every hour 1..12 with a meridiem the time of day of the plan is
\* at hour h+12 for pm with h # 12, 12 for 12pm, 0 for 12am and h for am with
\* h # 12, which is always within 0..23; without a meridiem the hour 0..23 is
\* taken as it is.  (A recurring reminder whose time of day has passed starts
\* one interval after that time of day.)
C16_MeridiemConversion ==
    (HasTime /\ ValidTime(parseCall.input.hour, parseCall.input.minute,
                          parseCall.input.meridiem)) =>
        LET h == Hour24(parseCall.input.hour, parseCall.input.meridiem)
        IN /\ parseCall.plan.ok
           /\ h \in 0..23
           /\ parseCall.input.meridiem = "" => h = parseCall.input.hour
           /\ IF parseCall.input.pat = "recurring"
              THEN PlanTime - DateAt(parseCall.at, 0, h, parseCall.input.minute)
                       \in {0, parseCall.plan.interval}
              ELSE PlanTime % DayMs = (h * HourMs) + (parseCall.input.minute * MinuteMs)

\* RemindBot has parsed "at 12:30am" and the plan is for 0:30
C16_Witness ==
    /\ bot = "ReminderBot" /\ Called /\ parseCall.input.pat = "absolute"
    /\ parseCall.input.hour = 12 /\ parseCall.input.meridiem = "am"
    /\ parseCall.input.minute = 30
    /\ parseCall.plan.ok /\ parseCall.plan.timestamp % DayMs = 30 * MinuteMs

\* today's date at the captured time of day
TargetToday ==
    DayStart(parseCall.at)
        + (Hour24(parseCall.input.hour, parseCall.input.meridiem) * HourMs)
        + (parseCall.input.minute * MinuteMs)
\* the call was "today T" (ScheduleBot) or "at T" (RemindBot) with a valid T
TodayCall ==
    /\ Called
    /\ \/ bot = "ScheduleBot" /\ parseCall.input.pat = "today"
       \/ bot = "ReminderBot" /\ parseCall.input.pat = "absolute"
    /\ ValidTime(parseCall.input.hour, parseCall.input.minute, parseCall.input.meridiem)
\* the plan is for one run: no recurrence, no interval
OncePlan ==
    /\ parseCall.plan.ok
    /\ IF bot = "ScheduleBot"
       THEN parseCall.plan.type = "once" /\ parseCall.plan.interval = ""
            /\ parseCall.plan.intervalMs = 0
       ELSE ~parseCall.plan.isRecurring /\ parseCall.plan.interval = 0

\* C17: "today T" and "at T" with a valid T give a one-time plan for today at T
\* when that instant is not before now and for tomorrow at T when it is; the
\* plan is never earlier than now and the call never fails.
C17_TodayRollsOver ==
    TodayCall =>
        /\ OncePlan
        /\ PlanTime = IF TargetToday < parseCall.at THEN TargetToday + DayMs
                      ELSE TargetToday
        /\ PlanTime >= parseCall.at

\* ScheduleBot has parsed "today 12:30pm" at 12:45 and the plan is for 12:30
\* of the next day
C17_Witness ==
    /\ bot = "ScheduleBot" /\ TodayCall
    /\ parseCall.at % DayMs = (12 * HourMs) + (45 * MinuteMs)
    /\ parseCall.input.hour = 12 /\ parseCall.input.minute = 30
    /\ parseCall.input.meridiem = "pm"
    /\ parseCall.plan.nextRun = parseCall.at + DayMs - (15 * MinuteMs)

\* the length of a unit of "in N unit" under each of its names
unitToMs(unit) ==
    CASE unit \in {"s", "sec", "second"} -> SecondMs
      [] unit \in {"m", "min", "minute"} -> MinuteMs
      [] unit \in {"h", "hr", "hour"} -> HourMs
      [] unit \in {"d", "day"} -> DayMs
      [] unit \in {"w", "week"} -> WeekMs

TargetWeekday ==
    TargetToday + (((DayIndex(parseCall.input.day) + 7 - GetDay(parseCall.at)) % 7) * DayMs)
WeeklyCall ==
    /\ bot = "ScheduleBot" /\ Called /\ parseCall.input.pat = "weekly"
    /\ ValidTime(parseCall.input.hour, parseCall.input.minute, parseCall.input.meridiem)

\* C19: "weekly <weekday> <time>" gives the earliest instant strictly after now
\* that is on that weekday at that time: today when the weekday is today and the
\* time of day is still ahead, seven days on when it is not, and the coming
\* occurrence for every other weekday.
C19_WeeklyEarliest ==
    WeeklyCall =>
        /\ parseCall.plan.ok
        /\ parseCall.plan.type = "recurring" /\ parseCall.plan.interval = "weekly"
        /\ parseCall.plan.nextRun = IF TargetWeekday > parseCall.at THEN TargetWeekday
                                    ELSE TargetWeekday + WeekMs

DailyCall ==
    /\ bot = "ScheduleBot" /\ Called /\ parseCall.input.pat = "daily"
    /\ ValidTime(parseCall.input.hour, parseCall.input.minute, parseCall.input.meridiem)

\* C20: "daily [at] T" with a valid T gives a daily recurring plan whose first
\* run is today at T when that instant is after now and tomorrow at T
\* otherwise, so that now < nextRun <= now + 24h.
C20_DailyNextRun ==
    DailyCall =>
        /\ parseCall.plan.ok
        /\ parseCall.plan.type = "recurring" /\ parseCall.plan.interval = "daily"
        /\ parseCall.plan.nextRun = IF TargetToday > parseCall.at THEN TargetToday
                                    ELSE TargetToday + DayMs
        /\ parseCall.at < parseCall.plan.nextRun
        /\ parseCall.plan.nextRun <= parseCall.at + DayMs

\* "daily 9:00" has been parsed at 9:00 sharp and the first run is a full day on
C20_Witness ==
    /\ DailyCall
    /\ parseCall.at % DayMs = 9 * HourMs
    /\ parseCall.input.hour = 9 /\ parseCall.input.minute = 0
    /\ parseCall.input.meridiem = ""
    /\ parseCall.plan.nextRun = parseCall.at + DayMs

-----------------------------------------------------------------------------
(* The programs started after a long downtime: the data file was written   *)
(* three days before the process starts                                     *)

DownTime == 12 * HourMs

\* ScheduleBot, after "daily 8am" on day 0 at 12:00
DownFileS ==
    LET s1 == Schedule(1, "c1", "u1", parse(TimeString("daily", "", 8, 0, "am", 0, ""), DownTime))
    IN SaveData(2, MapSet(EmptyMap, 1, s1), MapSet(EmptyMap, "c1", {1}), ChannelOrder)

\* ScheduleBot, after "every 0 minutes" on day 0 at 12:00
DownFileS0 ==
    LET s1 == Schedule(1, "c1", "u1", parse(TimeString("every", "", 0, 0, "", 0, "minute"), DownTime))
    IN SaveData(2, MapSet(EmptyMap, 1, s1), MapSet(EmptyMap, "c1", {1}), ChannelOrder)

\* ScheduleBot, after "daily 8am" in c1 and "weekly saturday 8am" in c2 on
\* day 0 (a Thursday) at 12:00
DownFileSW ==
    LET s1 == Schedule(1, "c1", "u1", parse(TimeString("daily", "", 8, 0, "am", 0, ""), DownTime))
        s2 == Schedule(2, "c2", "u1",
                       parse(TimeString("weekly", "saturday", 8, 0, "am", 0, ""), DownTime))
    IN SaveData(3, MapSet(MapSet(EmptyMap, 1, s1), 2, s2),
                MapSet(MapSet(EmptyMap, "c1", {1}), "c2", {2}), ChannelOrder)

\* RemindBot, after "every 1 day" on day 0 at 12:00
DownFileR ==
    LET r1 == Reminder(1, "u1", "c1", parseR(TimeString("recurring", "", -1, 0, "", 1, "day"), DownTime))
    IN SaveData(2, MapSet(EmptyMap, 1, r1), MapSet(EmptyMap, "u1", {1}), UserOrder)

InitDowntime ==
    /\ bot \in {"ScheduleBot", "ReminderBot"}
    /\ now = T0
    /\ pc = "init"
    /\ checkTimer = FALSE
    /\ nextId = 1
    /\ schedules = EmptyMap
    /\ channelSchedules = EmptyMap
    /\ reminders = EmptyMap
    /\ userReminders = EmptyMap
    /\ disk \in IF bot = "ScheduleBot" THEN {DownFileS, DownFileS0, DownFileSW} ELSE {DownFileR}
    /\ scans = <<>>
    /\ calls = <<>>
    /\ sends = 0
    /\ creates = Len(disk.tasks)
    /\ faults = 0
    /\ issued = <<>>
    /\ delivered = {}
    /\ parseCall = NoParse

\* the timer callback, as long as fewer than MaxDeliveries messages were sent
STimerDown == Cardinality(delivered) < MaxDeliveries /\ STimer

\* the startup, the scans and the clock; no command arrives
NextDowntime ==
    \/ Ready
    \/ Tick
    \/ \E ok \in BOOLEAN : SLoadDone(ok)
    \/ STimerDown
    \/ \E k \in 1..MaxScans, ok \in BOOLEAN : SSendDone(k, ok)
    \/ \E k \in 1..MaxScans, ok \in BOOLEAN : SScanDone(k, ok)
    \/ \E ok \in BOOLEAN : RLoadDone(ok)
    \/ RTimer
    \/ \E k \in 1..MaxScans, ok \in BOOLEAN : RScanDone(k, ok)
    \/ RSendDone

SpecDowntime == InitDowntime /\ [][NextDowntime]_vars

\* the step in which the delivery attempt of scan k has succeeded
SendSucceeded(k) ==
    /\ bot = "ScheduleBot" /\ k \in 1..Len(scans) /\ scans[k].at = "send"
    /\ faults' = faults
    /\ Len(scans') = Len(scans) /\ scans'[k].i = scans[k].i + 1

\* C21: whenever a scan fires a task and reschedules it, the new nextRun /
\* timestamp is strictly later than the `now` of that scan, whatever the
\* nextRun before was.
C21_RescheduledAfterScan ==
    [][ /\ \A k \in 1..Len(scans) :
              (SendSucceeded(k) /\ scans[k].due[scans[k].i].type # "once"
                   /\ scans[k].due[scans[k].i].id \in DOMAIN schedules') =>
                  schedules'[scans[k].due[scans[k].i].id].nextRun > scans[k].now
        /\ (bot = "ReminderBot" /\ ScanStarted) =>
              \A j \in 1..Len(scans'[Len(scans')].due) :
                  LET r == scans'[Len(scans')].due[j]
                  IN r.isRecurring => reminders'[r.id].timestamp > scans'[Len(scans')].now
      ]_vars

\* C22: for every input parse accepts, at every current time, the nextRun /
\* timestamp of the plan is not earlier than the current time of the call.
C22_PlanNotInPast ==
    (Called /\ parseCall.plan.ok) => PlanTime >= parseCall.at

\* a scan has taken its due-set and has not yet rescheduled the last task of it
ScanWindow == \E k \in 1..Len(scans) : scans[k].at = "send"

\* C23: while a scan is between the snapshot of its due-set and the
\* reschedule of the last task of that due-set, no create or delete changes
\* the store and no second scan starts.
C23_ScanExclusive ==
    [][ ScanWindow =>
            /\ Len(calls') <= Len(calls)
            /\ UNCHANGED nextId
            /\ Len(scans') <= Len(scans)
      ]_vars

\* the deliveries that are in flight: a scan of ScheduleManager suspended at
\* channels.fetch / channel.send, a sendReminder call of RemindBot not yet
\* completed
InFlightSends == Cardinality({k \in 1..Len(scans) : scans[k].at = "send"}) + sends

\* C24: at no time are two delivery attempts in flight at once.
C24_OneDeliveryAtATime == InFlightSends <= 1

\* the writes that are in flight: save() calls suspended at fs.writeFile
InFlightWrites == Len(calls) + Cardinality({k \in 1..Len(scans) : scans[k].at = "save"})

\* C25: at no time are two writes of the data file in flight at once, and
\* when no write is in flight and none has failed the file holds the store
\* as the most recent save call saw it.
C25_OneWriteAtATime ==
    /\ InFlightWrites <= 1
    /\ (InFlightWrites = 0 /\ ~ScanWindow /\ faults = 0 /\ disk # NoFile
            /\ pc = "running") =>
           disk = IF bot = "ScheduleBot"
                  THEN SaveData(nextId, schedules, channelSchedules, ChannelOrder)
                  ELSE SaveData(nextId, reminders, userReminders, UserOrder)

\* C26: when a daily schedule fires with a successful delivery its nextRun
\* becomes its nextRun before plus 86,400,000 ms, and for a weekly schedule
\* plus 604,800,000 ms, whatever the time of the scan is; the schedule stays
\* in the primary map and in its channel's set, and its other fields and the
\* rest of the store are as before.
C26_FixedIncrement ==
    [][ \A k \in 1..Len(scans) :
            (SendSucceeded(k) /\ scans[k].due[scans[k].i].type = "recurring"
                 /\ scans[k].due[scans[k].i].id \in DOMAIN schedules) =>
                LET id == scans[k].due[scans[k].i].id
                    period == IF schedules[id].interval = "daily" THEN 86400000
                              ELSE 604800000
                IN /\ schedules[id].interval \in {"daily", "weekly"}
                   /\ schedules' = [schedules EXCEPT ![id].nextRun = @ + period]
                   /\ channelSchedules' = channelSchedules
                   /\ id \in channelSchedules'[schedules'[id].channelId]
      ]_vars

\* after three days of downtime the weekly schedule of the data file has been
\* sent once and is stored for a week after the run it missed, the daily one
\* has been sent and is stored for a day after the run it missed, which is
\* still before now
C26_Witness ==
    /\ bot = "ScheduleBot" /\ disk = DownFileSW /\ pc = "running"
    /\ {1, 2} \subseteq DOMAIN schedules
    /\ schedules[2].interval = "weekly"
    /\ schedules[2].nextRun = DownFileSW.tasks[2].nextRun + WeekMs
    /\ schedules[1].interval = "daily"
    /\ schedules[1].nextRun = DownFileSW.tasks[1].nextRun + DayMs
    /\ schedules[1].nextRun < now
    /\ \E d \in delivered : d.id = 2 /\ d.occ = DownFileSW.tasks[2].nextRun
    /\ 2 \in channelSchedules["c2"] /\ 1 \in channelSchedules["c1"]

\* C27: when an interval schedule fires, its nextRun becomes the time of the
\* delivery plus its interval, also when the delivery completes later than the
\* scan started; a recurring reminder gets the time of its scan plus its
\* interval.  Neither depends on the nextRun / timestamp before.
C27_AnchoredToFireTime ==
    [][ /\ \A k \in 1..Len(scans) :
              (SendSucceeded(k) /\ scans[k].due[scans[k].i].type = "interval"
                   /\ scans[k].due[scans[k].i].id \in DOMAIN schedules) =>
                  schedules'[scans[k].due[scans[k].i].id].nextRun =
                      now + scans[k].due[scans[k].i].intervalMs
        /\ (bot = "ReminderBot" /\ ScanStarted) =>
              \A j \in 1..Len(scans'[Len(scans')].due) :
                  LET r == scans'[Len(scans')].due[j]
                  IN r.isRecurring => reminders'[r.id].timestamp = now + r.interval
      ]_vars

\* the step in which a create has inserted its task and is suspended at its save
CreateInserted ==
    /\ Len(calls') = Len(calls) + 1
    /\ calls'[Len(calls')].op = "create"

\* C28: create checks the limit, then parses, then inserts into both maps,
\* then persists: for a destination at its limit it fails with LIMIT_REACHED
\* whatever the time text is, also text the parser rejects; the parser's error
\* is returned only when the limit check has passed; and when create is
\* suspended at its save the task is in the primary map and in its
\* destination's set, the snapshot being written holds it, and the file is
\* not yet changed.
C28_CreateOrder ==
    /\ [](/\ \A c \in Channels, ts \in TimeStrings, u \in Creators :
               LET r == create(c, ts, u)
               IN /\ ChannelLimitReached(c) => r.error = "LIMIT_REACHED"
                  /\ (~ChannelLimitReached(c) /\ ~parse(ts, now).ok) =>
                         r.error = parse(ts, now).code
                  /\ r.error # "" => (~r.saves /\ r.primary = schedules
                                         /\ r.index = channelSchedules)
          /\ \A u \in Users, c \in ReplyChannels, ts \in TimeStringsR :
               LET r == createR(u, c, ts)
               IN /\ UserLimitReached(u) => r.error = "LIMIT_REACHED"
                  /\ (~UserLimitReached(u) /\ ~parseR(ts, now).ok) =>
                         r.error = parseR(ts, now).code
                  /\ r.error # "" => (~r.saves /\ r.primary = reminders
                                         /\ r.index = userReminders))
    /\ [][ CreateInserted =>
              LET id == calls'[Len(calls')].id
                  data == calls'[Len(calls')].data
              IN /\ disk' = disk
                 /\ id = nextId /\ nextId' = nextId + 1
                 /\ \E j \in 1..Len(data.tasks) : data.tasks[j].id = id
                 /\ IF bot = "ScheduleBot"
                    THEN /\ id \in DOMAIN schedules' /\ id \notin DOMAIN schedules
                         /\ id \in channelSchedules'[schedules'[id].channelId]
                         /\ Cardinality(ChannelSet(channelSchedules, schedules'[id].channelId))
                                < maxSchedulesPerChannel
                    ELSE /\ id \in DOMAIN reminders'
                         /\ id \in userReminders'[reminders'[id].userId]
                         /\ Cardinality(ChannelSet(userReminders, reminders'[id].userId))
                                < maxRemindersPerUser
          ]_vars

\* a channel is at its limit and a create command with a text the parser
\* rejects fails with LIMIT_REACHED, while the same text for a channel below
\* its limit fails with the parser's error
C28_Witness ==
    /\ bot = "ScheduleBot" /\ pc = "running"
    /\ ChannelLimitReached("c1") /\ ~ChannelLimitReached("c2")
    /\ \E ts \in TimeStrings :
          /\ ~parse(ts, now).ok
          /\ create("c1", ts, "u1").error = "LIMIT_REACHED"
          /\ create("c2", ts, "u1").error = "INVALID_FORMAT"

\* C29: a scan with a non-empty due-set issues one save, after every task of
\* the due-set has been processed, and a scan with no due task issues none:
\* a suspended scan has a due-set that is not empty; while tasks of it are left
\* it has issued no write; its write is issued when the last task has been
\* processed, with the store of that moment; no step of the scan before that
\* changes the file; and the scan ends when that write completes.
C29_OneSavePerScan ==
    /\ [](\A k \in 1..Len(scans) :
             /\ scans[k].due # <<>>
             /\ scans[k].at = "send" =>
                   (scans[k].i <= Len(scans[k].due) /\ scans[k].data = NoData)
             /\ scans[k].at = "save" =>
                   (scans[k].data # NoData
                    /\ (bot = "ScheduleBot" => scans[k].i = Len(scans[k].due) + 1)))
    /\ [][ /\ \A k \in 1..Len(scans) :
                 (scans[k].at = "send" /\ Len(scans') = Len(scans) /\ scans'[k] # scans[k]) =>
                     /\ disk' = disk
                     /\ scans'[k].at = "save" =>
                           /\ scans[k].i = Len(scans[k].due)
                           /\ scans'[k].data =
                                  SaveData(nextId', schedules', channelSchedules', ChannelOrder)
           /\ ScanStarted =>
                 /\ disk' = disk
                 /\ bot = "ReminderBot" =>
                       /\ scans'[Len(scans')].at = "save"
                       /\ scans'[Len(scans')].data =
                              SaveData(nextId', reminders', userReminders', UserOrder)
           /\ Len(scans') < Len(scans) => \E k \in 1..Len(scans) : EndedScan(k)
         ]_vars

\* a scan has processed the two schedules of its due-set, both are delivered,
\* its one write is in flight and the file is still the one the process
\* started with
C29_Witness ==
    /\ bot = "ScheduleBot" /\ disk = PrevFileS2
    /\ \E k \in 1..Len(scans) :
          /\ Len(scans[k].due) = 2 /\ scans[k].at = "save"
          /\ \A j \in 1..2 : \E d \in delivered : d.id = scans[k].due[j].id
          /\ scans[k].data # disk

\* C30: no scan begins before load has completed, and the step that completes
\* load also arms the timer and runs one scan, at the time of that step, which
\* takes every enabled task of the data file whose nextRun / timestamp is at
\* or before now.
C30_CatchUpAtStart ==
    /\ [](pc # "running" =>
             (scans = <<>> /\ ~checkTimer /\ sends = 0 /\ delivered = {}))
    /\ [][ Started =>
              /\ checkTimer' /\ now' = now /\ disk' = disk
              /\ disk # NoFile =>
                    \A j \in 1..Len(disk.tasks) :
                        LET t == disk.tasks[j]
                            isDue == IF bot = "ScheduleBot"
                                     THEN t.enabled /\ t.nextRun <= now
                                     ELSE ~t.triggered /\ t.timestamp <= now
                        IN isDue =>
                              /\ ScanStarted
                              /\ scans'[Len(scans')].now = now
                              /\ t \in Range(scans'[Len(scans')].due)
         ]_vars

\* the process has just started: the scan of the 'ready' handler holds both
\* overdue schedules of the data file and nothing else has happened yet
C30_Witness ==
    /\ bot = "ScheduleBot" /\ pc = "running" /\ checkTimer /\ now = T0
    /\ disk = PrevFileS2 /\ delivered = {} /\ calls = <<>>
    /\ Len(scans) = 1 /\ scans[1].now = T0 /\ scans[1].i = 1
    /\ Range(scans[1].due) = Range(PrevFileS2.tasks)
    /\ \A j \in 1..Len(PrevFileS2.tasks) : PrevFileS2.tasks[j].nextRun < T0

-----------------------------------------------------------------------------
(* The scans under fair scheduling: the timer keeps firing, and every await *)
(* of a scan and of a delivery completes in the end                         *)

\* ScheduleBot, after "every 30 hours" in c1 and "tomorrow 6pm" in c2: both
\* are due for the first time at 18:00 of the day the process starts
LiveFileS ==
    LET s1 == Schedule(1, "c1", "u1", parse(TimeString("every", "", 0, 0, "", 30, "hour"), PrevTime))
        s2 == Schedule(2, "c2", "u1", parse(TimeString("tomorrow", "", 6, 0, "pm", 0, ""), PrevTime))
    IN SaveData(3, MapSet(MapSet(EmptyMap, 1, s1), 2, s2),
                MapSet(MapSet(EmptyMap, "c1", {1}), "c2", {2}), ChannelOrder)

\* RemindBot, after "in 30 hours" and "every 30 hours"
LiveFileR ==
    LET r1 == Reminder(1, "u1", "c1", parseR(TimeString("relative", "", -1, 0, "", 30, "hour"), PrevTime))
        r2 == Reminder(2, "u1", "c1", parseR(TimeString("recurring", "", -1, 0, "", 30, "hour"), PrevTime))
    IN SaveData(3, MapSet(MapSet(EmptyMap, 1, r1), 2, r2),
                MapSet(EmptyMap, "u1", {1, 2}), UserOrder)

InitLive ==
    /\ bot \in {"ScheduleBot", "ReminderBot"}
    /\ now = T0
    /\ pc = "init"
    /\ checkTimer = FALSE
    /\ nextId = 1
    /\ schedules = EmptyMap
    /\ channelSchedules = EmptyMap
    /\ reminders = EmptyMap
    /\ userReminders = EmptyMap
    /\ disk \in IF bot = "ScheduleBot" THEN {LiveFileS, PrevFileS2} ELSE {LiveFileR, PrevFileR2}
    /\ scans = <<>>
    /\ calls = <<>>
    /\ sends = 0
    /\ creates = Len(disk.tasks)
    /\ faults = 0
    /\ issued = <<>>
    /\ delivered = {}
    /\ parseCall = NoParse

\* the startup, the scans and the clock; no command arrives
NextLive ==
    \/ Ready
    \/ Tick
    \/ \E ok \in BOOLEAN : SLoadDone(ok)
    \/ STimer
    \/ \E k \in 1..MaxScans, ok \in BOOLEAN : SSendDone(k, ok)
    \/ \E k \in 1..MaxScans, ok \in BOOLEAN : SScanDone(k, ok)
    \/ \E ok \in BOOLEAN : RLoadDone(ok)
    \/ RTimer
    \/ \E k \in 1..MaxScans, ok \in BOOLEAN : RScanDone(k, ok)
    \/ RSendDone

\* setInterval keeps calling check(), and the promises a scan awaits
\* (readFile, channels.fetch / channel.send, writeFile) settle
FairLive ==
    /\ WF_vars(Ready)
    /\ WF_vars(\E ok \in BOOLEAN : SLoadDone(ok))
    /\ WF_vars(\E ok \in BOOLEAN : RLoadDone(ok))
    /\ WF_vars(STimer)
    /\ WF_vars(RTimer)
    /\ \A k \in 1..MaxScans : WF_vars(\E ok \in BOOLEAN : SSendDone(k, ok))
    /\ \A k \in 1..MaxScans : WF_vars(\E ok \in BOOLEAN : SScanDone(k, ok))
    /\ \A k \in 1..MaxScans : WF_vars(\E ok \in BOOLEAN : RScanDone(k, ok))
    /\ WF_vars(RSendDone)

SpecLive == InitLive /\ [][NextLive]_vars /\ FairLive

\* the ids and the nextRun / timestamp values of the tasks of the data files
LiveIds == {1, 2}
LiveOccs ==
    {LiveFileS.tasks[j].nextRun : j \in 1..2} \cup {PrevFileS2.tasks[j].nextRun : j \in 1..2}
    \cup {LiveFileR.tasks[j].timestamp : j \in 1..2}
    \cup {PrevFileR2.tasks[j].timestamp : j \in 1..2}

\* the store holds task id, enabled, and its nextRun / timestamp o is reached
DueOcc(id, o) ==
    IF bot = "ScheduleBot"
    THEN /\ id \in DOMAIN schedules /\ schedules[id].enabled
         /\ schedules[id].nextRun = o /\ o <= now
    ELSE /\ id \in DOMAIN reminders /\ ~reminders[id].triggered
         /\ reminders[id].timestamp = o /\ o <= now

\* the delivery hook was invoked for that occurrence of the task, and the
\* task is removed or has another nextRun / timestamp
FiredOcc(id, o) ==
    /\ \E d \in delivered : d.id = id /\ d.occ = o
    /\ IF bot = "ScheduleBot"
       THEN id \in DOMAIN schedules => schedules[id].nextRun # o
       ELSE id \in DOMAIN reminders => reminders[id].timestamp # o

\* C31: with the timer firing again and again and every delivery attempt
\* completing, successfully in the end, every enabled task of the store whose
\* nextRun / timestamp is reached is eventually delivered and then removed
\* (one-time) or given a new nextRun / timestamp.
C31_DueEventuallyFired ==
    \A id \in LiveIds, o \in LiveOccs : DueOcc(id, o) ~> FiredOcc(id, o)

\* scan k awaits the delivery to channel c
SendingTo(k, c) ==
    /\ k \in 1..Len(scans) /\ scans[k].at = "send"
    /\ scans[k].due[scans[k].i].channelId = c

\* as FairLive, but channel c1 does not respond: the promise of a delivery
\* to it may stay pending for ever
FairStall ==
    /\ WF_vars(Ready)
    /\ WF_vars(\E ok \in BOOLEAN : SLoadDone(ok))
    /\ WF_vars(\E ok \in BOOLEAN : RLoadDone(ok))
    /\ WF_vars(STimer)
    /\ WF_vars(RTimer)
    /\ \A k \in 1..MaxScans :
          WF_vars(~SendingTo(k, "c1") /\ \E ok \in BOOLEAN : SSendDone(k, ok))
    /\ \A k \in 1..MaxScans : WF_vars(\E ok \in BOOLEAN : SScanDone(k, ok))
    /\ \A k \in 1..MaxScans : WF_vars(\E ok \in BOOLEAN : RScanDone(k, ok))
    /\ WF_vars(RSendDone)

SpecStall == InitLive /\ [][NextLive]_vars /\ FairStall

\* C32: a delivery attempt that never completes does not stall scanning:
\* every scan that awaits a delivery eventually gets to its save, and the due
\* schedules of the other channels are eventually delivered while channel c1
\* stays unresponsive.
C32_NoStall ==
    /\ \A k \in 1..MaxScans :
          (k \in 1..Len(scans) /\ scans[k].at = "send")
              ~> (k \notin 1..Len(scans) \/ scans[k].at = "save")
    /\ \A id \in LiveIds, o \in LiveOccs :
          (bot = "ScheduleBot" /\ DueOcc(id, o) /\ schedules[id].channelId # "c1")
              ~> FiredOcc(id, o)

-----------------------------------------------------------------------------
(* The timer after a failed check *)

\* a check that was started rejects: the write of its save() fails
\* (ReminderManager.save rethrows; ScheduleManager.save only logs)
ScanFailed == \E k \in 1..Len(scans) : EndedScan(k) /\ faults' = faults + 1

\* C33: a check that fails leaves the periodic timer armed, and the timer's
\* next callback still runs a check: once startChecking has run, the timer
\* is armed in every state, a failing check does not disarm it, and whenever
\* fewer than MaxScans checks are suspended the timer's callback can run.
C33_TimerSurvivesFailure ==
    /\ [](pc = "running" => checkTimer)
    /\ []((pc = "running" /\ Len(scans) < MaxScans) => ENABLED (STimer \/ RTimer))
    /\ [][ScanFailed => checkTimer']_vars

\* the startup check of ReminderManager has failed at its save (reminder 1
\* was rescheduled and never delivered), and after it the timer has started
\* a check at a later time
C33_Witness ==
    /\ bot = "ReminderBot" /\ faults > 0 /\ checkTimer
    /\ Len(scans) = 1 /\ scans[1].now > T0
    /\ 1 \in DOMAIN reminders /\ reminders[1].interval = DayMs
    /\ reminders[1].timestamp = PrevFileR2.tasks[1].timestamp + DayMs
    /\ \A d \in delivered : d.id # 1
    /\ scans[1].due[1].id = 3 /\ disk # NoFile /\ disk.nextId = 4

-----------------------------------------------------------------------------
(* Schedules with enabled = false *)

\* create always stores enabled: true and nothing in the program clears the
\* flag, so a disabled schedule comes from the data file.  The files of
\* PrevFileS2 with one of the two overdue schedules disabled.
PausedFileS1 ==
    LET s1 == [PrevFileS2.tasks[1] EXCEPT !.enabled = FALSE]
        s2 == PrevFileS2.tasks[2]
    IN SaveData(3, MapSet(MapSet(EmptyMap, 1, s1), 2, s2),
                MapSet(MapSet(EmptyMap, "c1", {1}), "c2", {2}), ChannelOrder)

PausedFileS2 ==
    LET s1 == PrevFileS2.tasks[1]
        s2 == [PrevFileS2.tasks[2] EXCEPT !.enabled = FALSE]
    IN SaveData(3, MapSet(MapSet(EmptyMap, 1, s1), 2, s2),
                MapSet(MapSet(EmptyMap, "c1", {1}), "c2", {2}), ChannelOrder)

InitPaused ==
    /\ bot = "ScheduleBot"
    /\ now = T0
    /\ pc = "init"
    /\ checkTimer = FALSE
    /\ nextId = 1
    /\ schedules = EmptyMap
    /\ channelSchedules = EmptyMap
    /\ reminders = EmptyMap
    /\ userReminders = EmptyMap
    /\ disk \in {PausedFileS1, PausedFileS2}
    /\ scans = <<>>
    /\ calls = <<>>
    /\ sends = 0
    /\ creates = Len(disk.tasks)
    /\ faults = 0
    /\ issued = <<>>
    /\ delivered = {}
    /\ parseCall = NoParse

NextPaused ==
    \/ Ready
    \/ Tick
    \/ \E ok \in BOOLEAN : SLoadDone(ok)
    \/ \E c \in Channels, ts \in TimeStrings, u \in Creators : SCreate(c, ts, u)
    \/ \E id \in Ids, u \in Users : SDelete(id, u)
    \/ \E k \in 1..MaxCalls, ok \in BOOLEAN : SCallDone(k, ok)
    \/ \E c \in Channels : SList(c)
    \/ STimer
    \/ \E k \in 1..MaxScans, ok \in BOOLEAN : SSendDone(k, ok)
    \/ \E k \in 1..MaxScans, ok \in BOOLEAN : SScanDone(k, ok)

SpecPaused == InitPaused /\ [][NextPaused]_vars

\* C34: a schedule with enabled = false, whatever its nextRun, is in no
\* scan's due-set, is never delivered and is not returned by list; no step
\* other than a delete of it changes it: it stays in the primary map with all
\* fields unchanged and in the same index set.
C34_DisabledUntouched ==
    /\ [](/\ \A k \in 1..Len(scans) : \A j \in 1..Len(scans[k].due) :
                scans[k].due[j].enabled
          /\ \A c \in Channels : \A j \in 1..Len(list(c)) : list(c)[j].enabled
          /\ \A id \in DOMAIN schedules :
                ~schedules[id].enabled => \A d \in delivered : d.id # id)
    /\ [][\A id \in DOMAIN schedules :
              ~schedules[id].enabled =>
                  \/ \E u \in Users : SDelete(id, u)
                  \/ /\ id \in DOMAIN schedules'
                     /\ schedules'[id] = schedules[id]
                     /\ IndexKeysOf(channelSchedules', id) = IndexKeysOf(channelSchedules, id)
         ]_vars

\* the disabled schedule 1 of the data file is overdue and still in both
\* maps after a scan has delivered the other schedule and time has passed
C34_Witness ==
    /\ bot = "ScheduleBot" /\ now > T0
    /\ 1 \in DOMAIN schedules /\ ~schedules[1].enabled
    /\ schedules[1] = PausedFileS1.tasks[1] /\ schedules[1].nextRun <= T0
    /\ IndexKeysOf(channelSchedules, 1) = {"c1"} /\ list("c1") = <<>>
    /\ \E d \in delivered : d.id = 2
    /\ scans = <<>>

-----------------------------------------------------------------------------
(* Saves that fail *)

\* what save() would write now: the in-memory store
StoreData ==
    IF bot = "ScheduleBot"
    THEN SaveData(nextId, schedules, channelSchedules, ChannelOrder)
    ELSE SaveData(nextId, reminders, userReminders, UserOrder)

\* the step in which the write of a save() completes, of a command or a scan
SaveEnded == (\E k \in 1..Len(calls) : CallEnded(k)) \/ (\E k \in 1..Len(scans) : EndedScan(k))
SaveEndedOk == SaveEnded /\ faults' = faults
SaveEndedFailed == SaveEnded /\ faults' = faults + 1

-----------------------------------------------------------------------------
(* Removal and delivery of one-time tasks *)

\* C36: a scan removes a one-time task from the store only if the delivery
\* hook has been invoked for it: a schedule that leaves the primary map in a
\* step of a scan has been passed to channel.send in that step, and when the
\* check of ReminderManager ends, with its save failed or not, every one-time
\* reminder its second pass has removed has had its 'reminder:trigger' emitted.
C36_RemovedOnlyIfDelivered ==
    [][ /\ (bot = "ScheduleBot" /\ pc = "running" /\ scans' # scans) =>
              \A id \in (DOMAIN schedules) \ (DOMAIN schedules') :
                  \E d \in delivered' : d.id = id /\ d.occ = schedules[id].nextRun
        /\ \A k \in 1..Len(scans) :
              (bot = "ReminderBot" /\ EndedScan(k)) =>
                  \A j \in 1..Len(scans[k].due) :
                      ~scans[k].due[j].isRecurring =>
                          \E d \in delivered' :
                              d.id = scans[k].due[j].id /\ d.occ = scans[k].due[j].timestamp
      ]_vars

-----------------------------------------------------------------------------
(* Commands that overlap a scan or the startup load *)

\* the step in which scan k goes on to the delivery of the next schedule of
\* its due-set (or, a new scan, of the first)
AttemptStarts(k) ==
    /\ Len(scans') >= Len(scans)
    /\ k \in 1..Len(scans') /\ scans'[k].at = "send"
    /\ (k > Len(scans) \/ scans'[k].i # scans[k].i)

\* C37: no schedule is delivered after a delete of it has returned, also by
\* a scan that collected it before and was suspended at an earlier delivery.
\* Only a delete takes a recurring or interval schedule out of the primary
\* map, so when a scan goes on to the delivery of such a schedule, the
\* schedule is in the primary map or its delete is still suspended at its
\* save.
C37_NoDeliveryAfterDelete ==
    [][ \A k \in 1..Len(scans') :
            (bot = "ScheduleBot" /\ AttemptStarts(k)
                 /\ scans'[k].due[scans'[k].i].type # "once") =>
                LET id == scans'[k].due[scans'[k].i].id
                IN \/ id \in DOMAIN schedules'
                   \/ \E j \in 1..Len(calls') : calls'[j].op = "delete" /\ calls'[j].id = id
      ]_vars

\* C38: a create that has returned success while the startup load was in
\* progress is not undone when load completes: its task is in the primary
\* map and in its destination's set as before, and nextId is above its id.
\* Stated for the runs in which no write has failed.
C38_CreateSurvivesLoad ==
    [][ (Started /\ faults = 0) =>
          \A j \in 1..Len(issued) :
              LET id == issued[j]
                  returned == \A c \in 1..Len(calls) : calls[c].id # id
              IN /\ (bot = "ScheduleBot" /\ returned /\ id \in DOMAIN schedules) =>
                       /\ id \in DOMAIN schedules' /\ schedules'[id] = schedules[id]
                       /\ IndexKeysOf(channelSchedules', id) = IndexKeysOf(channelSchedules, id)
                       /\ nextId' > id
                 /\ (bot = "ReminderBot" /\ returned /\ id \in DOMAIN reminders) =>
                       /\ id \in DOMAIN reminders' /\ reminders'[id] = reminders[id]
                       /\ IndexKeysOf(userReminders', id) = IndexKeysOf(userReminders, id)
                       /\ nextId' > id
      ]_vars

-----------------------------------------------------------------------------
(* Creates that fail, and what a scan leaves alone *)

\* a step that calls no save, ends none, and is no step of a scan, of the
\* startup or of the clock: a command that failed, or a list
NothingStarted ==
    /\ calls' = calls /\ scans' = scans /\ pc' = pc /\ now' = now
    /\ faults' = faults /\ delivered' = delivered /\ sends' = sends

\* C39: a create that fails with LIMIT_REACHED or with the parser's error
\* changes nothing: it leaves the primary map, the index (its keys and its
\* sets), nextId and the data file as they were and calls no save, so it
\* consumes no id; a create that succeeds takes the id nextId and advances
\* nextId by one, and no step other than a successful create and the startup
\* load changes nextId, so creates with failed creates between them get
\* consecutive ids.
C39_FailedCreateNoEffect ==
    /\ [](/\ \A c \in Channels, ts \in TimeStrings, u \in Creators :
                LET r == create(c, ts, u)
                IN IF r.error # ""
                   THEN /\ r.nextId = nextId /\ r.primary = schedules
                        /\ r.index = channelSchedules /\ ~r.saves
                   ELSE r.id = nextId /\ r.nextId = nextId + 1
          /\ \A u \in Creators, c \in ReplyChannels, ts \in TimeStringsR :
                LET r == createR(u, c, ts)
                IN IF r.error # ""
                   THEN /\ r.nextId = nextId /\ r.primary = reminders
                        /\ r.index = userReminders /\ ~r.saves
                   ELSE r.id = nextId /\ r.nextId = nextId + 1)
    /\ [][ /\ NothingStarted =>
                 UNCHANGED <<nextId, schedules, channelSchedules, reminders, userReminders,
                             disk, issued>>
           /\ (nextId' # nextId /\ ~Started) =>
                 /\ nextId' = nextId + 1
                 /\ issued' = Append(issued, nextId)
                 /\ CreateInserted
         ]_vars

\* ScheduleBot has handed out ids 1 and 2, both channels are at their limit
\* and every create now fails, with LIMIT_REACHED
C39_Witness ==
    /\ bot = "ScheduleBot" /\ pc = "running"
    /\ issued = <<1, 2>> /\ nextId = 3
    /\ \A c \in Channels, ts \in TimeStrings : create(c, ts, "u1").error = "LIMIT_REACHED"

\* a step of a scan after the startup: check() is called by the timer, one
\* of its awaits completes, or a sendReminder call completes
ScanStep == (scans' # scans \/ sends' # sends) /\ ~Started

\* C40: a scan leaves alone every task whose nextRun / timestamp is later
\* than the `now` the scan read when it collected its due-set: such a task is
\* not in the due-set, and the steps of a scan deliver and change only tasks
\* of its due-set, every other task keeping its fields and its place in both
\* maps; no step of a scan adds a task to the primary map or a member or key
\* to the index, and none changes nextId.
C40_ScanTouchesOnlyDue ==
    /\ [](\A k \in 1..Len(scans) : \A j \in 1..Len(scans[k].due) :
              IF bot = "ScheduleBot" THEN scans[k].due[j].nextRun <= scans[k].now
              ELSE scans[k].due[j].timestamp <= scans[k].now)
    /\ [][ ScanStep =>
             /\ nextId' = nextId
             /\ DOMAIN schedules' \subseteq DOMAIN schedules
             /\ DOMAIN reminders' \subseteq DOMAIN reminders
             /\ DOMAIN channelSchedules' \subseteq DOMAIN channelSchedules
             /\ DOMAIN userReminders' \subseteq DOMAIN userReminders
             /\ \A c \in DOMAIN channelSchedules' : channelSchedules'[c] \subseteq channelSchedules[c]
             /\ \A u \in DOMAIN userReminders' : userReminders'[u] \subseteq userReminders[u]
             /\ (bot = "ScheduleBot" /\ ScanStarted) =>
                   /\ UNCHANGED <<schedules, channelSchedules, delivered>>
                   /\ \A id \in DOMAIN schedules :
                         schedules[id].nextRun > now =>
                             \A j \in 1..Len(scans'[Len(scans')].due) :
                                 scans'[Len(scans')].due[j].id # id
             /\ \A k \in 1..Len(scans) :
                   (bot = "ScheduleBot" /\ Len(scans') = Len(scans)
                        /\ scans[k].at = "send" /\ scans'[k] # scans[k]) =>
                       LET s == scans[k].due[scans[k].i]
                       IN /\ \A id \in (DOMAIN schedules) \ {s.id} :
                                /\ id \in DOMAIN schedules' /\ schedules'[id] = schedules[id]
                                /\ IndexKeysOf(channelSchedules', id) = IndexKeysOf(channelSchedules, id)
                          /\ \A d \in delivered' \ delivered : d.id = s.id
             /\ (bot = "ScheduleBot" /\ \E k \in 1..Len(scans) : EndedScan(k)) =>
                   UNCHANGED <<schedules, channelSchedules, delivered>>
             /\ (bot = "ReminderBot" /\ ScanStarted) =>
                   /\ delivered' = delivered
                   /\ \A id \in DOMAIN reminders :
                         reminders[id].timestamp > now =>
                             /\ id \in DOMAIN reminders' /\ reminders'[id] = reminders[id]
                             /\ IndexKeysOf(userReminders', id) = IndexKeysOf(userReminders, id)
                             /\ \A j \in 1..Len(scans'[Len(scans')].due) :
                                   scans'[Len(scans')].due[j].id # id
             /\ \A k \in 1..Len(scans) :
                   (bot = "ReminderBot" /\ EndedScan(k)) =>
                       /\ UNCHANGED <<reminders, userReminders>>
                       /\ \A d \in delivered' \ delivered :
                             \E j \in 1..Len(scans[k].due) : scans[k].due[j].id = d.id
             /\ (bot = "ReminderBot" /\ scans' = scans) =>
                   UNCHANGED <<reminders, userReminders, delivered>>
         ]_vars

\* a scan of ScheduleBot has delivered schedule 1 while schedule 2, in the
\* other channel and not yet due, is as it was created and undelivered
C40_Witness ==
    /\ bot = "ScheduleBot" /\ pc = "running" /\ now > T0
    /\ \E d \in delivered : d.id = 1 /\ d.at = now
    /\ 2 \in DOMAIN schedules /\ schedules[2].nextRun > now
    /\ IndexKeysOf(channelSchedules, 2) = {schedules[2].channelId}
    /\ \A d \in delivered : d.id # 2

====
